---- MODULE Spec2Model ----
(***************************************************************************)
(* Model of the module-reuse recommendation engine of the task manager     *)
(* backend: the semantic similarity oracle with its cache and lexical      *)
(* fallback (tag_embeddings.py), and the module similarity scorer.         *)
(*                                                                         *)
(* Tags are Python strings, modelled as sequences of one-character         *)
(* strings.  Scores are Python floats in [0, 1], modelled in fixed point:  *)
(* the integer n stands for n / One.  Weights are in hundredths, so a      *)
(* weighted score is in units of 1 / (One * WeightUnit).                   *)
(***************************************************************************)
EXTENDS Integers, Sequences, FiniteSets, TLC

VARIABLES
    similarity_cache,   \* TagEmbeddingService.similarity_cache
    oracle_calls,       \* number of claude.messages.create calls made so far
    last,               \* the most recent call: its arguments and what it returned
    seen,               \* every (unordered pair, layer, score) returned for a non-identical pair
    modules,            \* the rows of the modules table, in retrieval order
    module_tags_table,  \* the rows of the module_tags table
    reuse_history,      \* the rows of the reuse_history table, in insertion order
    pending             \* the generate_tags_for_module call in progress, if any

vars ==
    <<similarity_cache, oracle_calls, last, seen, modules, module_tags_table, reuse_history,
      pending>>

\* the record store's tables and the handler in progress
storeVars == <<modules, module_tags_table, reuse_history, pending>>

(***************************************************************************)
(* Bounds                                                                  *)
(***************************************************************************)
\* cap on the oracle call counter
MaxCalls == 2

\* cap on the number of module rows created
MaxModules == 1

\* cap on the number of module rows created by reuse
MaxReused == 2

(***************************************************************************)
(* Fixed-point arithmetic                                                  *)
(***************************************************************************)
\* the score 1.0; chosen so that every quotient the model takes is exact
One == 16 * 9 * 25 * 7

\* the weight 1.0 (weights are hundredths)
WeightUnit == 10 * 10

Min2(a, b) == IF b < a THEN b ELSE a

Max2(a, b) == IF b > a THEN b ELSE a

RECURSIVE SumOver(_, _)
SumOver(S, f) ==
    IF S = {} THEN 0
    ELSE LET e == CHOOSE e \in S : TRUE
         IN f[e] + SumOver(S \ {e}, f)

(***************************************************************************)
(* Python string operations                                                *)
(***************************************************************************)
Whitespace == {" ", "\t"}

UpperChars == <<"A", "B", "C", "D", "E", "F", "G", "H", "I", "J", "K", "L", "M",
                "N", "O", "P", "Q", "R", "S", "T", "U", "V", "W", "X", "Y", "Z">>

LowerChars == <<"a", "b", "c", "d", "e", "f", "g", "h", "i", "j", "k", "l", "m",
                "n", "o", "p", "q", "r", "s", "t", "u", "v", "w", "x", "y", "z">>

\* str.lower()
StrLower(s) ==
    [i \in 1..Len(s) |->
        IF \E k \in 1..Len(UpperChars) : UpperChars[k] = s[i]
        THEN LowerChars[CHOOSE k \in 1..Len(UpperChars) : UpperChars[k] = s[i]]
        ELSE s[i]]

\* str.strip()
StrStrip(s) ==
    LET keep == {i \in 1..Len(s) : s[i] \notin Whitespace}
    IN IF keep = {} THEN <<>>
       ELSE SubSeq(s, CHOOSE i \in keep : \A j \in keep : i <= j,
                      CHOOSE i \in keep : \A j \in keep : i >= j)

\* sub in s
StrIn(sub, s) ==
    \E i \in 0..(Len(s) - Len(sub)) : SubSeq(s, i + 1, i + Len(sub)) = sub

\* s.replace(old, new) for single characters
StrReplace(s, old, new) ==
    [i \in 1..Len(s) |-> IF s[i] = old THEN new ELSE s[i]]

\* set(s.split()): the maximal runs of non-whitespace characters
StrSplitSet(s) ==
    {SubSeq(s, i, j) : <<i, j>> \in
        {p \in (1..Len(s)) \X (1..Len(s)) :
            /\ p[1] <= p[2]
            /\ \A k \in p[1]..p[2] : s[k] \notin Whitespace
            /\ (p[1] = 1 \/ s[p[1] - 1] \in Whitespace)
            /\ (p[2] = Len(s) \/ s[p[2] + 1] \in Whitespace)}}

\* tag.lower().strip()
Normalize(tag) == StrStrip(StrLower(tag))

(***************************************************************************)
(* Tags                                                                    *)
(***************************************************************************)
T_auth == <<"a", "u", "t", "h">>

T_Auth_sp == <<"A", "u", "t", "h", " ">>

T_auth_service == <<"a", "u", "t", "h", "-", "s", "e", "r", "v", "i", "c", "e">>

T_auth__service == <<"a", "u", "t", "h", "_", "s", "e", "r", "v", "i", "c", "e">>

T_user_auth == <<"u", "s", "e", "r", "_", "a", "u", "t", "h">>

T_payment == <<"p", "a", "y", "m", "e", "n", "t">>

T_user_sp_data == <<"u", "s", "e", "r", " ", "d", "a", "t", "a">>

T_data_lake == <<"d", "a", "t", "a", "-", "l", "a", "k", "e">>

T_hyphen == <<"-">>

T_underscore == <<"_">>

T_empty == <<>>

T_authentication == <<"a", "u", "t", "h", "e", "n", "t", "i", "c", "a", "t", "i", "o", "n">>

T_nodejs == <<"n", "o", "d", "e", "j", "s">>

T_python == <<"p", "y", "t", "h", "o", "n">>

T_saas == <<"s", "a", "a", "s">>

\* raw tags passed to calculate_semantic_similarity
Tags == {T_auth, T_Auth_sp, T_auth_service}

\* normalized tags passed to _fallback_similarity
FallbackTags == {T_auth, T_auth_service, T_auth__service, T_user_auth, T_payment,
                 T_user_sp_data, T_data_lake, T_hyphen, T_underscore, T_empty}

\* tag values carried by the modules that are scored
ModuleTagValues == {T_auth, T_Auth_sp, T_authentication, T_payment, T_nodejs, T_python,
                    T_saas, T_empty}

Layers == {"L1_intent", "L2_constraint", "L3_context"}

\* Normalize and _fallback_similarity, tabulated once over the tags in use
NormalizeOf == [t \in Tags \cup FallbackTags \cup ModuleTagValues |-> Normalize(t)]

NormalizedTags == {NormalizeOf[t] : t \in DOMAIN NormalizeOf}

(***************************************************************************)
(* The oracle (claude.messages.create) and its replies, after the fence    *)
(* markers are stripped                                                    *)
(***************************************************************************)
OracleNumbers == {0 - (One \div 2), (95 * One) \div 100, One + (One \div 2)}

OracleReplies ==
    {[kind |-> k, value |-> 0] :
        k \in {"raise", "not_json", "not_object", "no_key", "non_numeric"}}
    \cup {[kind |-> "number", value |-> v] : v \in OracleNumbers}

\* replies for which the oracle call errors or cannot be parsed as the
\* expected numeric structure
FailedReplies == {r \in OracleReplies : r.kind # "number"}

(***************************************************************************)
(* TagEmbeddingService._fallback_similarity                                *)
(***************************************************************************)
FallbackWords(tag) == StrSplitSet(StrReplace(StrReplace(tag, "-", " "), "_", " "))

\* containment tested in one direction only
_fallback_similarity_oneway(tag1, tag2) ==
    IF tag1 = tag2 THEN One
    ELSE IF StrIn(tag1, tag2) THEN (8 * One) \div 10
    ELSE LET words1 == FallbackWords(tag1)
             words2 == FallbackWords(tag2)
         IN IF words1 # {} /\ words2 # {}
            THEN (7 * Cardinality(words1 \cap words2) * One)
                    \div (10 * Cardinality(words1 \cup words2))
            ELSE 0

_fallback_similarity(tag1, tag2) ==
    IF tag1 = tag2 THEN One
    ELSE IF StrIn(tag1, tag2) \/ StrIn(tag2, tag1) THEN (8 * One) \div 10
    ELSE LET words1 == FallbackWords(tag1)
             words2 == FallbackWords(tag2)
         IN IF words1 # {} /\ words2 # {}
            THEN LET intersection == Cardinality(words1 \cap words2)
                     union == Cardinality(words1 \cup words2)
                 IN (7 * intersection * One) \div (10 * union)
            ELSE 0

FallbackOf ==
    [p \in NormalizedTags \X NormalizedTags |-> _fallback_similarity(p[1], p[2])]

(***************************************************************************)
(* TagEmbeddingService._assess_similarity_with_claude                      *)
(***************************************************************************)
\* the parsed score returned without clamping
AssessTry_noclamp(reply) ==
    IF reply.kind \in {"raise", "not_json", "not_object", "non_numeric"}
    THEN [exc |-> TRUE, value |-> 0]
    ELSE [exc |-> FALSE, value |-> IF reply.kind = "no_key" THEN 0 ELSE reply.value]

\* the body of the try block: exc is TRUE when a statement of it raises
AssessTry(reply) ==
    IF reply.kind \in {"raise", "not_json", "not_object", "non_numeric"}
    THEN [exc |-> TRUE, value |-> 0]
    ELSE LET similarity == IF reply.kind = "no_key" THEN 0 ELSE reply.value
         IN [exc |-> FALSE, value |-> Max2(0, Min2(One, similarity))]

_assess_similarity_with_claude(tag1, tag2, layer, reply) ==
    LET t == AssessTry(reply)
    IN IF t.exc
       THEN [raised |-> FALSE, value |-> FallbackOf[<<tag1, tag2>>]]
       ELSE [raised |-> FALSE, value |-> t.value]

(***************************************************************************)
(* TagEmbeddingService.calculate_semantic_similarity, as a function of the *)
(* cache and of the reply the oracle would give                            *)
(***************************************************************************)
\* the reverse ordering of the key is not looked up
CacheLookup_oneway(cache, cache_key, reverse_key) ==
    IF cache_key \in DOMAIN cache THEN [hit |-> TRUE, value |-> cache[cache_key]]
    ELSE [hit |-> FALSE, value |-> 0]

CacheLookup(cache, cache_key, reverse_key) ==
    IF cache_key \in DOMAIN cache THEN [hit |-> TRUE, value |-> cache[cache_key]]
    ELSE IF reverse_key \in DOMAIN cache THEN [hit |-> TRUE, value |-> cache[reverse_key]]
    ELSE [hit |-> FALSE, value |-> 0]

\* the tags compared as given, not normalized
ExactMatch_raw(tag1, tag2) == tag1 = tag2

ExactMatch(tag1, tag2) == NormalizeOf[tag1] = NormalizeOf[tag2]

\* the score is returned without being recorded
CacheStore_skip(cache, cache_key, similarity_score) == cache

CacheStore(cache, cache_key, similarity_score) ==
    [k \in DOMAIN cache \cup {cache_key} |->
        IF k = cache_key THEN similarity_score ELSE cache[k]]

\* the oracle consulted on every call that is not an exact match
calculate_semantic_similarity_nocache(cache, tag1, tag2, layer, reply) ==
    LET tag1_norm == NormalizeOf[tag1]
        tag2_norm == NormalizeOf[tag2]
        cache_key == <<tag1_norm, tag2_norm, layer>>
    IN IF ExactMatch(tag1, tag2)
       THEN [ret |-> One, cache |-> cache, oracle |-> FALSE, raised |-> FALSE]
       ELSE LET a == _assess_similarity_with_claude(tag1_norm, tag2_norm, layer, reply)
            IN [ret |-> a.value, cache |-> CacheStore(cache, cache_key, a.value),
                oracle |-> TRUE, raised |-> a.raised]

calculate_semantic_similarity(cache, tag1, tag2, layer, reply) ==
    LET tag1_norm == NormalizeOf[tag1]
        tag2_norm == NormalizeOf[tag2]
        cache_key == <<tag1_norm, tag2_norm, layer>>
        reverse_key == <<tag2_norm, tag1_norm, layer>>
        found == CacheLookup(cache, cache_key, reverse_key)
    IN IF ExactMatch(tag1, tag2)
       THEN [ret |-> One, cache |-> cache, oracle |-> FALSE, raised |-> FALSE]
       ELSE IF found.hit
       THEN [ret |-> found.value, cache |-> cache, oracle |-> FALSE, raised |-> FALSE]
       ELSE LET a == _assess_similarity_with_claude(tag1_norm, tag2_norm, layer, reply)
            IN [ret |-> a.value,
                cache |-> IF a.raised THEN cache
                          ELSE CacheStore(cache, cache_key, a.value),
                oracle |-> TRUE, raised |-> a.raised]

\* no reply: the oracle is not consulted
NoReply == [kind |-> "unused", value |-> 0]

\* the replies the oracle can give to a call: none when the call does not reach it
RepliesFor(cache, tag1, tag2, layer) ==
    IF calculate_semantic_similarity(cache, tag1, tag2, layer, NoReply).oracle
    THEN OracleReplies
    ELSE {NoReply}

\* the history entry of a returned score
SeenEntry(tag1, tag2, layer, score) ==
    [pair |-> {NormalizeOf[tag1], NormalizeOf[tag2]}, layer |-> layer, score |-> score]

(***************************************************************************)
(* Sequential calls of calculate_semantic_similarity on one service        *)
(***************************************************************************)
NoCall == [op |-> "none"]

\* no handler in progress
NoPending == [op |-> "none"]

\* the tables before any row is written
EmptyStore ==
    /\ modules = <<>>
    /\ module_tags_table = {}
    /\ reuse_history = <<>>
    /\ pending = NoPending

Init ==
    /\ similarity_cache = <<>>
    /\ oracle_calls = 0
    /\ last = NoCall
    /\ seen = {}
    /\ EmptyStore

SemanticSimilarity ==
    \E tag1 \in Tags, tag2 \in Tags, layer \in Layers :
      \E reply \in RepliesFor(similarity_cache, tag1, tag2, layer) :
      \E r \in {calculate_semantic_similarity(similarity_cache, tag1, tag2, layer, reply)} :
        LET calls == IF r.oracle THEN oracle_calls + 1 ELSE oracle_calls
        IN /\ calls <= MaxCalls
           /\ similarity_cache' = r.cache
           /\ oracle_calls' = calls
           /\ seen' = IF NormalizeOf[tag1] = NormalizeOf[tag2] THEN seen
                      ELSE seen \cup {SeenEntry(tag1, tag2, layer, r.ret)}
           /\ last' = [op |-> "similarity", tag1 |-> tag1, tag2 |-> tag2, layer |-> layer,
                       ret |-> r.ret, oracle |-> r.oracle, raised |-> r.raised,
                       reply |-> reply]
           /\ UNCHANGED storeVars

Next == SemanticSimilarity

Spec == Init /\ [][Next]_vars

(***************************************************************************)
(* _fallback_similarity applied to every pair of normalized tags           *)
(***************************************************************************)
InitFallback ==
    /\ similarity_cache = <<>>
    /\ oracle_calls = 0
    /\ seen = {}
    /\ EmptyStore
    /\ last \in {[op |-> "fallback_args", tag1 |-> a, tag2 |-> b] :
                    a \in FallbackTags, b \in FallbackTags}

FallbackCall ==
    /\ last.op = "fallback_args"
    /\ last' = [op |-> "fallback", tag1 |-> last.tag1, tag2 |-> last.tag2,
                ret |-> _fallback_similarity(last.tag1, last.tag2)]
    /\ UNCHANGED <<similarity_cache, oracle_calls, seen>>
    /\ UNCHANGED storeVars

NextFallback == FallbackCall

SpecFallback == InitFallback /\ [][NextFallback]_vars

(***************************************************************************)
(* Module tags and weights                                                 *)
(***************************************************************************)
\* module tag dicts: layer -> tag value; a layer outside the domain has no tag
M_target == [L1_intent |-> T_auth, L2_constraint |-> T_nodejs, L3_context |-> T_saas]

M_candidate ==
    [L1_intent |-> T_authentication, L2_constraint |-> T_nodejs, L3_context |-> T_saas]

M_noL3 == [L1_intent |-> T_Auth_sp, L2_constraint |-> T_python]

M_noL1 == [L2_constraint |-> T_nodejs, L3_context |-> T_empty]

ModuleTagSets == {M_target, M_candidate, M_noL3, M_noL1}

\* weights=None
W_none == [given |-> FALSE, w |-> <<>>]

\* weights that do not sum to 1
W_uneven ==
    [given |-> TRUE, w |-> [L1_intent |-> 50, L2_constraint |-> 50, L3_context |-> 50]]

\* a negative weight
W_negative ==
    [given |-> TRUE, w |-> [L1_intent |-> 0 - 50, L2_constraint |-> 100, L3_context |-> 50]]

\* a weight keyed by a layer outside the fixed three
W_foreign == [given |-> TRUE, w |-> [L1_intent |-> 60, L4_quality |-> 40]]

WeightArgs == {W_none, W_uneven, W_negative, W_foreign}

\* built-in weights that put the technology first
DefaultWeights_tech_first == [L1_intent |-> 20, L2_constraint |-> 60, L3_context |-> 20]

DefaultWeights == [L1_intent |-> 60, L2_constraint |-> 25, L3_context |-> 15]

LayerOrder == <<"L1_intent", "L2_constraint", "L3_context">>

(***************************************************************************)
(* determine_reuse_strategy_simple: the strategy it chooses                *)
(***************************************************************************)
\* thresholds in hundredths
threshold_high == 75

threshold_medium == 50

\* layer_scores.get(layer, 0.0)
LayerScoreGet(layer_scores, layer) ==
    IF layer \in DOMAIN layer_scores THEN layer_scores[layer] ELSE 0

\* the marks tested with > instead of >=
useful_patterns_strict(l1_score, l2_score, l3_score) ==
    (IF 10 * l1_score > 4 * One THEN {"Intent patterns"} ELSE {})
    \cup (IF 10 * l2_score > 6 * One THEN {"Tech stack"} ELSE {})
    \cup (IF 10 * l3_score > 6 * One THEN {"Domain knowledge"} ELSE {})

\* the new_gen branch's useful_patterns list, as the set of its entries
useful_patterns(l1_score, l2_score, l3_score) ==
    (IF 10 * l1_score >= 4 * One THEN {"Intent patterns"} ELSE {})
    \cup (IF 10 * l2_score >= 6 * One THEN {"Tech stack"} ELSE {})
    \cup (IF 10 * l3_score >= 6 * One THEN {"Domain knowledge"} ELSE {})

\* which of the rationale texts is produced
SimpleRationale(strategy, l1_score, l2_score, l3_score) ==
    IF strategy = "direct" THEN "high_similarity"
    ELSE IF strategy = "partial_reuse"
    THEN IF 10 * l1_score >= 7 * One
         THEN IF 10 * l2_score < 5 * One THEN "tech_differs"
              ELSE IF 10 * l3_score < 5 * One THEN "domain_differs"
              ELSE "moderate_match"
         ELSE "low_intent_match"
    ELSE IF useful_patterns(l1_score, l2_score, l3_score) # {}
         THEN "low_match_learn_from"
         ELSE "no_meaningful_match"

\* the same decision with an inverted second comparison
SimpleStrategy_inverted(weighted_score, t_high, t_medium) ==
    IF weighted_score >= t_high * One THEN "direct"
    ELSE IF weighted_score < t_medium * One THEN "partial_reuse"
    ELSE "new_gen"

\* the if / elif / else on weighted_score
SimpleStrategy(weighted_score, t_high, t_medium) ==
    IF weighted_score >= t_high * One THEN "direct"
    ELSE IF weighted_score >= t_medium * One THEN "partial_reuse"
    ELSE "new_gen"

\* the same decision taken on overall_score
determine_reuse_strategy_simple_overall(similarity_result, t_high, t_medium) ==
    LET l1_score == LayerScoreGet(similarity_result.layer_scores, "L1_intent")
        l2_score == LayerScoreGet(similarity_result.layer_scores, "L2_constraint")
        l3_score == LayerScoreGet(similarity_result.layer_scores, "L3_context")
        strategy == SimpleStrategy(similarity_result.overall_score * WeightUnit,
                                   t_high, t_medium)
    IN [strategy |-> strategy,
        rationale |-> SimpleRationale(strategy, l1_score, l2_score, l3_score),
        learn_from |-> IF strategy = "new_gen"
                       THEN useful_patterns(l1_score, l2_score, l3_score) ELSE {},
        confidence |-> similarity_result.weighted_score]

determine_reuse_strategy_simple(similarity_result, t_high, t_medium) ==
    LET weighted_score == similarity_result.weighted_score
        l1_score == LayerScoreGet(similarity_result.layer_scores, "L1_intent")
        l2_score == LayerScoreGet(similarity_result.layer_scores, "L2_constraint")
        l3_score == LayerScoreGet(similarity_result.layer_scores, "L3_context")
        strategy == SimpleStrategy(weighted_score, t_high, t_medium)
    IN [strategy |-> strategy,
        rationale |-> SimpleRationale(strategy, l1_score, l2_score, l3_score),
        learn_from |-> IF strategy = "new_gen"
                       THEN useful_patterns(l1_score, l2_score, l3_score) ELSE {},
        confidence |-> weighted_score]

(***************************************************************************)
(* TagEmbeddingService.calculate_module_similarity                         *)
(***************************************************************************)
\* the tag dicts whose records carry the reasoning text written by the tagger
\* ({"tag": ..., "confidence": ..., "reasoning": ...}); the others hold the tag only
WithReasoning == {M_target, M_candidate}

\* no reasoning: None
NoReasoning == [some |-> FALSE, about |-> <<>>]

\* module_tags.get(layer, {}).get("reasoning"): the text explains the tag it
\* was written for
ReasoningOf(module_tags, layer) ==
    IF module_tags \in WithReasoning /\ layer \in DOMAIN module_tags
    THEN [some |-> TRUE, about |-> module_tags[layer]]
    ELSE NoReasoning

\* the prompt of _assess_similarity_with_claude: the two tags, the layer, and
\* a context line for each reasoning that is given
OracleRequest(tag1, tag2, layer, tag1_reasoning, tag2_reasoning) ==
    [tag1 |-> tag1, tag2 |-> tag2, layer |-> layer,
     tag1_context |-> tag1_reasoning, tag2_context |-> tag2_reasoning]

\* module_tags.get(layer, {}).get("tag")
TagOf(module_tags, layer) ==
    IF layer \in DOMAIN module_tags
    THEN [some |-> TRUE, tag |-> module_tags[layer]]
    ELSE [some |-> FALSE, tag |-> <<>>]

\* not tag
Falsy(t) == ~t.some \/ t.tag = <<>>

\* the layer is left out of layer_scores
MissingLayer_skip(st, layer) == st

\* the branch taken when a tag is missing: score 0.0, then continue
MissingLayer(st, layer) ==
    [st EXCEPT !.layer_scores =
        [l \in DOMAIN st.layer_scores \cup {layer} |->
            IF l = layer THEN 0 ELSE st.layer_scores[l]]]

\* one iteration of the loop over the layers
ScoreLayer(st, layer, module1_tags, module2_tags, reply) ==
    LET tag1 == TagOf(module1_tags, layer)
        tag2 == TagOf(module2_tags, layer)
    IN IF Falsy(tag1) \/ Falsy(tag2)
       THEN MissingLayer(st, layer)
       ELSE LET r == calculate_semantic_similarity(st.cache, tag1.tag, tag2.tag, layer, reply)
            IN [cache |-> r.cache,
                layer_scores |->
                    [l \in DOMAIN st.layer_scores \cup {layer} |->
                        IF l = layer THEN r.ret ELSE st.layer_scores[l]],
                consulted |-> IF r.oracle THEN st.consulted \cup {layer} ELSE st.consulted,
                requests |->
                    IF r.oracle
                    THEN st.requests \cup
                            {OracleRequest(NormalizeOf[tag1.tag], NormalizeOf[tag2.tag],
                                           layer, NoReasoning, NoReasoning)}
                    ELSE st.requests,
                compared |-> st.compared \cup {layer},
                raised |-> st.raised \/ r.raised]

\* the default weights used whatever the caller supplies
WeightsUsed_default(weights) == DefaultWeights

\* if weights is None: weights = {...}
WeightsUsed(weights) == IF weights.given THEN weights.w ELSE DefaultWeights

\* sum(layer_scores.get(layer, 0.0) * weight for layer, weight in weights.items())
WeightedSum(layer_scores, w) ==
    SumOver(DOMAIN w,
            [layer \in DOMAIN w |->
                (IF layer \in DOMAIN layer_scores THEN layer_scores[layer] ELSE 0)
                    * w[layer]])

\* what the function returns once the loop has run
ModuleResult(st, weights) ==
    [cache |-> st.cache,
     consulted |-> st.consulted,
     requests |-> st.requests,
     compared |-> st.compared,
     raised |-> st.raised,
     error |-> "none",
     layer_scores |-> st.layer_scores,
     weighted_score |-> WeightedSum(st.layer_scores, WeightsUsed(weights)),
     overall_score |->
        IF DOMAIN st.layer_scores # {}
        THEN SumOver(DOMAIN st.layer_scores, st.layer_scores)
                \div Cardinality(DOMAIN st.layer_scores)
        ELSE 0,
     weights_used |-> WeightsUsed(weights)]

\* the loop state before the first layer
LoopStart(cache) ==
    [cache |-> cache, layer_scores |-> <<>>, consulted |-> {}, requests |-> {},
     compared |-> {},
     raised |-> FALSE]

calculate_module_similarity(cache, module1_tags, module2_tags, weights, replies) ==
    CHOOSE result \in
        {ModuleResult(st3, weights) : st3 \in
            {ScoreLayer(st2, LayerOrder[3], module1_tags, module2_tags, replies[3]) : st2 \in
                {ScoreLayer(st1, LayerOrder[2], module1_tags, module2_tags, replies[2]) : st1 \in
                    {ScoreLayer(LoopStart(cache), LayerOrder[1], module1_tags, module2_tags,
                                replies[1])}}}} : TRUE

\* the replies the oracle can give for one layer of a module comparison
LayerReplies(cache, module1_tags, module2_tags, layer) ==
    LET tag1 == TagOf(module1_tags, layer)
        tag2 == TagOf(module2_tags, layer)
    IN IF Falsy(tag1) \/ Falsy(tag2) THEN {NoReply}
       ELSE RepliesFor(cache, tag1.tag, tag2.tag, layer)

(***************************************************************************)
(* Sequential calls of calculate_module_similarity on one service          *)
(***************************************************************************)
ModuleSimilarity ==
    \E module1_tags \in ModuleTagSets, module2_tags \in ModuleTagSets, weights \in WeightArgs :
      \E r1 \in LayerReplies(similarity_cache, module1_tags, module2_tags, LayerOrder[1]),
         r2 \in LayerReplies(similarity_cache, module1_tags, module2_tags, LayerOrder[2]),
         r3 \in LayerReplies(similarity_cache, module1_tags, module2_tags, LayerOrder[3]) :
      \E r \in {calculate_module_similarity(similarity_cache, module1_tags, module2_tags,
                                             weights, <<r1, r2, r3>>)} :
        LET calls == oracle_calls + Cardinality(r.consulted)
        IN /\ calls <= MaxCalls
           /\ similarity_cache' = r.cache
           /\ oracle_calls' = calls
           /\ seen' = seen \cup
                {SeenEntry(module1_tags[l], module2_tags[l], l, r.layer_scores[l]) :
                    l \in {c \in r.compared \cap DOMAIN r.layer_scores :
                            NormalizeOf[module1_tags[c]] # NormalizeOf[module2_tags[c]]}}
           /\ last' = [op |-> "module",
                       module1_tags |-> module1_tags,
                       module2_tags |-> module2_tags,
                       weights |-> weights,
                       repeat |-> /\ last.op = "module"
                                  /\ last.module1_tags = module1_tags
                                  /\ last.module2_tags = module2_tags
                                  /\ last.weights = weights,
                       consulted |-> r.consulted,
                       requests |-> r.requests,
                       raised |-> r.raised,
                       error |-> r.error,
                       layer_scores |-> r.layer_scores,
                       weighted_score |-> r.weighted_score,
                       overall_score |-> r.overall_score]
           /\ UNCHANGED storeVars

NextScorer == ModuleSimilarity

SpecScorer == Init /\ [][NextScorer]_vars

(***************************************************************************)
(* reuse_strategy.py: the layer-quality decision                           *)
(***************************************************************************)
\* h hundredths as a score
Hundredths(h) == (h * One) \div WeightUnit

SmartLayers == <<"L1_intent", "L2_constraint", "L3_context", "L4_quality">>

\* f"{layer}_score"
ScoreKey(layer) ==
    CASE layer = "L1_intent" -> "L1_intent_score"
      [] layer = "L2_constraint" -> "L2_constraint_score"
      [] layer = "L3_context" -> "L3_context_score"
      [] layer = "L4_quality" -> "L4_quality_score"

\* one LayerMatchQuality per layer: score, is_strong, is_acceptable
analyze_layer_match_quality(score_breakdown) ==
    [layer \in {SmartLayers[i] : i \in 1..Len(SmartLayers)} |->
        LET score == IF ScoreKey(layer) \in DOMAIN score_breakdown
                     THEN score_breakdown[ScoreKey(layer)] ELSE 0
        IN [score |-> score,
            is_strong |-> 10 * score >= 7 * One,
            is_acceptable |-> 10 * score >= 4 * One]]

\* the same decision tree with case 1 asking for a strong L3
determine_smart_reuse_strategy_strongL3(overall_score, score_breakdown) ==
    LET layer_analysis == analyze_layer_match_quality(score_breakdown)
        L1 == layer_analysis["L1_intent"]
        L2 == layer_analysis["L2_constraint"]
        L3 == layer_analysis["L3_context"]
    IN IF L1.is_strong /\ L2.is_strong /\ L3.is_strong
       THEN [strategy |-> "direct", confidence |-> Min2(Hundredths(95), overall_score)]
       ELSE IF L1.is_strong /\ ~L2.is_strong
       THEN [strategy |-> "partial_reuse", confidence |-> Hundredths(70)]
       ELSE IF L1.is_strong /\ ~L3.is_acceptable
       THEN [strategy |-> "partial_reuse", confidence |-> Hundredths(65)]
       ELSE IF L1.is_acceptable /\ ~L1.is_strong
       THEN [strategy |-> "pattern_combination", confidence |-> Hundredths(60)]
       ELSE [strategy |-> "new_gen", confidence |-> Hundredths(30)]

determine_smart_reuse_strategy(overall_score, score_breakdown) ==
    LET layer_analysis == analyze_layer_match_quality(score_breakdown)
        L1 == layer_analysis["L1_intent"]
        L2 == layer_analysis["L2_constraint"]
        L3 == layer_analysis["L3_context"]
    IN IF L1.is_strong /\ L2.is_strong /\ L3.is_acceptable
       THEN [strategy |-> "direct", confidence |-> Min2(Hundredths(95), overall_score)]
       ELSE IF L1.is_strong /\ ~L2.is_strong
       THEN [strategy |-> "partial_reuse", confidence |-> Hundredths(70)]
       ELSE IF L1.is_strong /\ ~L3.is_acceptable
       THEN [strategy |-> "partial_reuse", confidence |-> Hundredths(65)]
       ELSE IF L1.is_acceptable /\ ~L1.is_strong
       THEN [strategy |-> "pattern_combination", confidence |-> Hundredths(60)]
       ELSE [strategy |-> "new_gen", confidence |-> Hundredths(30)]

(***************************************************************************)
(* The two decisions applied to similarity results                         *)
(***************************************************************************)
\* weighted scores around the thresholds
WeightedScores ==
    {0, 40 * One, 50 * One - 1, 50 * One, 60 * One, 75 * One - 1, 75 * One,
     85 * One, 90 * One, One * WeightUnit}

\* layer scores on both sides of 0.4, 0.5, 0.6 and 0.7, and at 0.6
LayerScoreValues == {0, Hundredths(45), Hundredths(60), Hundredths(65), One}

SimilarityResults ==
    [weighted_score : WeightedScores,
     overall_score : {0, One},
     layer_scores : [Layers -> LayerScoreValues]]

\* (threshold_high, threshold_medium) as the caller may pass them
ThresholdPairs ==
    {<<threshold_high, threshold_medium>>, <<85, 60>>, <<50, 75>>}

\* scores at and next to the strong and acceptable marks
QualityScores ==
    {0, Hundredths(40) - 1, Hundredths(40), Hundredths(70) - 1, Hundredths(70), One}

ScoreBreakdowns ==
    [{"L1_intent_score", "L2_constraint_score", "L3_context_score",
      "L4_quality_score"} -> QualityScores]
    \cup [{"L1_intent_score", "L2_constraint_score"} -> QualityScores]

OverallScores == {Hundredths(50), Hundredths(95), One}

InitDecide ==
    /\ similarity_cache = <<>>
    /\ oracle_calls = 0
    /\ seen = {}
    /\ EmptyStore
    /\ \/ \E sr \in SimilarityResults, t \in ThresholdPairs :
             last = [op |-> "simple_args", similarity_result |-> sr,
                     threshold_high |-> t[1], threshold_medium |-> t[2]]
       \/ \E o \in OverallScores, b \in ScoreBreakdowns :
             last = [op |-> "smart_args", overall_score |-> o, score_breakdown |-> b]

SimpleDecision ==
    /\ last.op = "simple_args"
    /\ \E d \in {determine_reuse_strategy_simple(last.similarity_result,
                     last.threshold_high, last.threshold_medium)} :
          last' = [op |-> "simple", similarity_result |-> last.similarity_result,
                   threshold_high |-> last.threshold_high,
                   threshold_medium |-> last.threshold_medium,
                   strategy |-> d.strategy, rationale |-> d.rationale,
                   learn_from |-> d.learn_from, confidence |-> d.confidence]
    /\ UNCHANGED <<similarity_cache, oracle_calls, seen>>
    /\ UNCHANGED storeVars

SmartDecision ==
    /\ last.op = "smart_args"
    /\ \E d \in {determine_smart_reuse_strategy(last.overall_score,
                                                last.score_breakdown)} :
          last' = [op |-> "smart", overall_score |-> last.overall_score,
                   score_breakdown |-> last.score_breakdown,
                   strategy |-> d.strategy, confidence |-> d.confidence]
    /\ UNCHANGED <<similarity_cache, oracle_calls, seen>>
    /\ UNCHANGED storeVars

NextDecide == SimpleDecision \/ SmartDecision

SpecDecide == InitDecide /\ [][NextDecide]_vars

(***************************************************************************)
(* The modules table searched by ModuleService.search_similar_modules      *)
(***************************************************************************)
\* tags_metadata column: SQL null, or a dict layer -> tag (possibly empty)
NullTags == [null |-> TRUE, tags |-> <<>>]

EmptyTags == [null |-> FALSE, tags |-> <<>>]

TagsMetadata(tags) == [null |-> FALSE, tags |-> tags]

\* a dict whose only tag is the empty string
M_blank == [L3_context |-> T_empty]

ModuleRow(id, project_id, tags_metadata) ==
    [id |-> id, project_id |-> project_id, tags_metadata |-> tags_metadata, sources |-> {}]

\* two store contents; the position in the sequence is the retrieval order
Pool1 ==
    <<ModuleRow("a", "p1", TagsMetadata(M_candidate)),
      ModuleRow("b", "p2", TagsMetadata(M_candidate)),
      ModuleRow("c", "p2", TagsMetadata(M_target)),
      ModuleRow("d", "p1", NullTags),
      ModuleRow("e", "p3", EmptyTags),
      ModuleRow("f", "p3", TagsMetadata(M_noL1)),
      ModuleRow("g", "p2", TagsMetadata(M_blank))>>

Pool2 ==
    <<ModuleRow("g", "p1", TagsMetadata(M_blank)),
      ModuleRow("b", "p2", TagsMetadata(M_candidate)),
      ModuleRow("e", "p1", EmptyTags),
      ModuleRow("c", "p3", TagsMetadata(M_target)),
      ModuleRow("a", "p1", TagsMetadata(M_candidate))>>

StoreContents == {Pool1, Pool2}

\* the project_id argument; the empty string stands for None and ""
ProjectArgs == {"", "p1"}

\* rows of scoring_weights_config by config_name: weights in hundredths
ScoringConfigs ==
    [default |-> [L1_intent |-> 50, L2_constraint |-> 25, L3_context |-> 15,
                  L4_quality |-> 10],
     tech_first |-> [L1_intent |-> 20, L2_constraint |-> 60, L3_context |-> 20,
                     L4_quality |-> 0]]

ConfigNames == DOMAIN ScoringConfigs

\* the limit argument
Limits == {1, 2, 10}

SearchTargets == {M_target, M_noL3, M_noL1}

(***************************************************************************)
(* TagEmbeddingService.find_similar_modules                                *)
(***************************************************************************)
\* the comparison of the two tags of a layer reaches the oracle
Consults(cache, query_tags, candidate_tags, layer) ==
    LET tag1 == TagOf(query_tags, layer)
        tag2 == TagOf(candidate_tags, layer)
    IN /\ ~Falsy(tag1)
       /\ ~Falsy(tag2)
       /\ calculate_semantic_similarity(cache, tag1.tag, tag2.tag, layer, NoReply).oracle

\* the k-th reply of the oracle during one search
ReplyAt(replies, k) == IF k \in DOMAIN replies THEN replies[k] ELSE NoReply

\* the replies met by the three layers of one comparison, after `used` replies
\* have been consumed
CandidateReplies(cache, query_tags, candidate_tags, replies, used) ==
    LET c1 == IF Consults(cache, query_tags, candidate_tags, LayerOrder[1]) THEN 1 ELSE 0
        c2 == IF Consults(cache, query_tags, candidate_tags, LayerOrder[2]) THEN 1 ELSE 0
    IN <<ReplyAt(replies, used + 1),
         ReplyAt(replies, used + c1 + 1),
         ReplyAt(replies, used + c1 + c2 + 1)>>

\* if not candidate_tags: continue
NoCandidateTags(candidate) ==
    candidate.tags_metadata.null \/ DOMAIN candidate.tags_metadata.tags = {}

\* the dict appended to results
ResultEntry(candidate, sim) ==
    [module |-> candidate,
     similarity |-> [weighted_score |-> sim.weighted_score,
                     overall_score |-> sim.overall_score,
                     layer_scores |-> sim.layer_scores,
                     weights_used |-> sim.weights_used]]

\* one iteration of the loop over candidate_modules; scored keeps every
\* comparison made, results those at or above the threshold
ScoreCandidate(st, query_tags, candidate, threshold, replies) ==
    IF NoCandidateTags(candidate) THEN st
    ELSE CHOOSE next \in
        {[cache |-> sim.cache,
          used |-> st.used + Cardinality(sim.consulted),
          scored |-> Append(st.scored, ResultEntry(candidate, sim)),
          results |-> IF sim.weighted_score >= threshold * One
                      THEN Append(st.results, ResultEntry(candidate, sim))
                      ELSE st.results] :
            sim \in {calculate_module_similarity(st.cache, query_tags,
                        candidate.tags_metadata.tags, W_none,
                        CandidateReplies(st.cache, query_tags,
                            candidate.tags_metadata.tags, replies, st.used))}} : TRUE

RECURSIVE ScoreCandidates(_, _, _, _, _, _)
ScoreCandidates(st, query_tags, candidate_modules, i, threshold, replies) ==
    IF i > Len(candidate_modules) THEN st
    ELSE ScoreCandidates(
            ScoreCandidate(st, query_tags, candidate_modules[i], threshold, replies),
            query_tags, candidate_modules, i + 1, threshold, replies)

SortKey(result) == result.similarity.weighted_score

\* an entry placed ahead of the entries of equal key
StableInsert_ahead(sorted, result) ==
    LET before == SelectSeq(sorted, LAMBDA x : SortKey(x) > SortKey(result))
        after == SelectSeq(sorted, LAMBDA x : SortKey(x) <= SortKey(result))
    IN before \o <<result>> \o after

\* where list.sort(key=..., reverse=True) leaves an entry: after every entry of
\* greater or equal key that preceded it (the sort is stable)
StableInsert(sorted, result) ==
    LET before == SelectSeq(sorted, LAMBDA x : SortKey(x) >= SortKey(result))
        after == SelectSeq(sorted, LAMBDA x : SortKey(x) < SortKey(result))
    IN before \o <<result>> \o after

RECURSIVE SortDescending(_, _, _)
SortDescending(results, i, sorted) ==
    IF i > Len(results) THEN sorted
    ELSE SortDescending(results, i + 1, StableInsert(sorted, results[i]))

\* the whole list returned whatever top_k is
TopK_all(results, top_k) == results

\* results[:top_k], top_k >= 0
TopK(results, top_k) == SubSeq(results, 1, Min2(top_k, Len(results)))

find_similar_modules(cache, query_tags, candidate_modules, threshold, top_k, replies) ==
    CHOOSE out \in
        {[cache |-> st.cache, used |-> st.used, scored |-> st.scored,
          results |-> TopK(SortDescending(st.results, 1, <<>>), top_k)] :
            st \in {ScoreCandidates(
                        [cache |-> cache, used |-> 0, scored |-> <<>>, results |-> <<>>],
                        query_tags, candidate_modules, 1, threshold, replies)}} : TRUE

(***************************************************************************)
(* ModuleService.search_similar_modules                                    *)
(***************************************************************************)
\* the query without the project filter
CandidateQuery_all(rows, project_id) ==
    SelectSeq(rows, LAMBDA m : ~m.tags_metadata.null)

\* select * where tags_metadata is not null [and project_id <> :project_id]
CandidateQuery(rows, project_id) ==
    SelectSeq(rows, LAMBDA m :
        /\ ~m.tags_metadata.null
        /\ (project_id # "" => m.project_id # project_id))

\* threshold=0.3 passed to find_similar_modules, in hundredths
search_threshold == 30

\* the entry of "matches" built from one ranked result
MatchEntry(result) ==
    LET d == determine_reuse_strategy_simple(result.similarity, threshold_high,
                                             threshold_medium)
    IN [module |-> result.module, similarity |-> result.similarity,
        strategy |-> d.strategy, rationale |-> d.rationale]

\* what one call returns, from ranked = find_similar_modules(...)
SearchResult(ranked, candidate_modules) ==
    [cache |-> ranked.cache, used |-> ranked.used, scored |-> ranked.scored,
     matches |-> [i \in 1..Len(ranked.results) |-> MatchEntry(ranked.results[i])],
     total_searched |-> Len(candidate_modules)]

search_similar_modules(rows, cache, target_tags, project_id, config_name, limit, replies) ==
    CHOOSE out \in
        {SearchResult(
            find_similar_modules(cache, target_tags, candidate_modules,
                                 search_threshold, limit, replies),
            candidate_modules) :
                candidate_modules \in {CandidateQuery(rows, project_id)}} : TRUE

\* the number of oracle calls a search would make
OracleCallsNeeded(rows, cache, target_tags, project_id) ==
    search_similar_modules(rows, cache, target_tags, project_id, "default", 0, <<>>).used

InitSearch ==
    /\ similarity_cache = <<>>
    /\ oracle_calls = 0
    /\ last = NoCall
    /\ seen = {}
    /\ modules \in StoreContents
    /\ module_tags_table = {}
    /\ reuse_history = <<>>
    /\ pending = NoPending

SearchSimilarModules ==
    \E target_tags \in SearchTargets, project_id \in ProjectArgs :
      \E n \in {OracleCallsNeeded(modules, similarity_cache, target_tags, project_id)} :
        /\ oracle_calls + n <= MaxCalls
        /\ \E replies \in [1..n -> OracleReplies], config_name \in ConfigNames,
              limit \in Limits :
            \E r \in {search_similar_modules(modules, similarity_cache, target_tags,
                          project_id, config_name, limit, replies)} :
              /\ similarity_cache' = r.cache
              /\ oracle_calls' = oracle_calls + n
              /\ last' = [op |-> "search", rows |-> modules, target_tags |-> target_tags,
                          project_id |-> project_id, config_name |-> config_name,
                          limit |-> limit,
                          repeat |-> /\ last.op = "search"
                                     /\ last.target_tags = target_tags
                                     /\ last.project_id = project_id
                                     /\ last.config_name = config_name
                                     /\ last.limit = limit,
                          scored |-> r.scored, matches |-> r.matches,
                          total_searched |-> r.total_searched]
        /\ UNCHANGED <<seen, modules, module_tags_table, reuse_history, pending>>

NextSearch == SearchSimilarModules

SpecSearch == InitSearch /\ [][NextSearch]_vars

(***************************************************************************)
(* Module creation and ModuleService.generate_tags_for_module, one store   *)
(* write per step                                                          *)
(***************************************************************************)
\* ids the store gives to inserted module rows, in order
NewModuleIds == <<"m1", "m2", "m3", "m4">>

\* tags_metadata a caller of create_module may supply: None or a tag dict
CallerTags == {NullTags, TagsMetadata(M_target)}

\* tags_data dicts the tag generation reply may parse to
TD_auth == M_target

TD_payment == [L1_intent |-> T_payment, L2_constraint |-> T_nodejs, L3_context |-> T_saas]

\* a reply with an empty L2 tag, no L3 and a fourth layer
TD_partial == [L1_intent |-> T_auth, L2_constraint |-> T_empty, L4_quality |-> T_saas]

TagsDataReplies == {TD_auth, TD_payment, TD_partial}

\* what claude.messages.create and json.loads give: tags_data or an exception
TagReplies ==
    {[kind |-> "raise", tags_data |-> <<>>], [kind |-> "not_json", tags_data |-> <<>>]}
    \cup {[kind |-> "tags", tags_data |-> td] : td \in TagsDataReplies}

\* the id the store gives to the next inserted row
NewId(rows) ==
    NewModuleIds[Cardinality({k \in 1..Len(rows) :
        \E n \in 1..Len(NewModuleIds) : rows[k].id = NewModuleIds[n]}) + 1]

\* the row appended by an insert into modules
InsertModule(rows, project_id, tags_metadata, sources) ==
    Append(rows, [id |-> NewId(rows), project_id |-> project_id,
                  tags_metadata |-> tags_metadata, sources |-> sources])

\* a generate_tags_for_module call that has found its module and is about to
\* call the model; again: the caller tags the module once more afterwards
TagRun(module_id, again) ==
    [op |-> "generate_tags", module_id |-> module_id, again |-> again, phase |-> "call",
     tags_data |-> <<>>, layer_index |-> 1]

\* the end of a generate_tags_for_module call, normal or by exception: the
\* memory-search pipeline then tags the modules it created a second time
TagRunEnd(run) ==
    IF run.again THEN TagRun(run.module_id, FALSE) ELSE NoPending

\* ModuleService.create_module: one insert, tags_metadata as supplied
CreateModule ==
    /\ Len(modules) < MaxModules
    /\ \E tags_metadata \in CallerTags :
          /\ modules' = InsertModule(modules, "p1", tags_metadata, {})
          /\ last' = [op |-> "create_module", tags_metadata |-> tags_metadata]
    /\ UNCHANGED <<similarity_cache, oracle_calls, seen, module_tags_table,
                   reuse_history, pending>>

\* generate_modules_with_ai inserts a generated module and tags it; called from
\* generate_modules_with_memory_search the module is tagged again at the end
GenerateModule ==
    /\ pending = NoPending
    /\ Len(modules) < MaxModules
    /\ \E again \in BOOLEAN :
          /\ modules' = InsertModule(modules, "p1", NullTags, {})
          /\ pending' = TagRun(NewId(modules), again)
          /\ last' = [op |-> "generate_module", again |-> again]
    /\ UNCHANGED <<similarity_cache, oracle_calls, seen, module_tags_table, reuse_history>>

\* POST /{module_id}/generate-tags on an existing module
RequestTags ==
    /\ pending = NoPending
    /\ \E k \in 1..Len(modules) :
          /\ pending' = TagRun(modules[k].id, FALSE)
          /\ last' = [op |-> "request_tags", module_id |-> modules[k].id]
    /\ UNCHANGED <<similarity_cache, oracle_calls, seen, modules, module_tags_table,
                   reuse_history>>

\* the model call and json.loads: an exception ends the call
TagsReply ==
    /\ pending.op = "generate_tags"
    /\ pending.phase = "call"
    /\ \E reply \in TagReplies :
          /\ pending' = IF reply.kind = "tags"
                        THEN [pending EXCEPT !.phase = "insert",
                                             !.tags_data = reply.tags_data]
                        ELSE TagRunEnd(pending)
          /\ last' = [op |-> "tags_reply", kind |-> reply.kind]
    /\ UNCHANGED <<similarity_cache, oracle_calls, seen, modules, module_tags_table,
                   reuse_history>>

\* the row inserted into module_tags for a layer
TagRow(module_id, layer_key, tag_value) ==
    [module_id |-> module_id, layer |-> layer_key, tag_value |-> tag_value]

\* the next phase after the iteration for layer_index
AfterLayer(run) ==
    IF run.layer_index = Len(LayerOrder)
    THEN [run EXCEPT !.phase = "update"]
    ELSE [run EXCEPT !.layer_index = run.layer_index + 1]

\* one iteration of the loop over the three layer keys: skipped when the layer
\* has no tag, else one insert that succeeds or raises (the exception is
\* swallowed)
InsertTag ==
    /\ pending.op = "generate_tags"
    /\ pending.phase = "insert"
    /\ LET layer_key == LayerOrder[pending.layer_index]
           tag == TagOf(pending.tags_data, layer_key)
       IN IF Falsy(tag)
          THEN /\ module_tags_table' = module_tags_table
               /\ last' = [op |-> "insert_tag", outcome |-> "skipped"]
          ELSE \E inserted \in BOOLEAN :
                  /\ module_tags_table' =
                        IF inserted
                        THEN module_tags_table
                                \cup {TagRow(pending.module_id, layer_key, tag.tag)}
                        ELSE module_tags_table
                  /\ last' = [op |-> "insert_tag",
                              outcome |-> IF inserted THEN "inserted" ELSE "failed"]
    /\ pending' = AfterLayer(pending)
    /\ UNCHANGED <<similarity_cache, oracle_calls, seen, modules, reuse_history>>

\* update modules set tags_metadata = tags_data where id = module_id
UpdateTagsMetadata ==
    /\ pending.op = "generate_tags"
    /\ pending.phase = "update"
    /\ modules' = [k \in 1..Len(modules) |->
                      IF modules[k].id = pending.module_id
                      THEN [modules[k] EXCEPT !.tags_metadata =
                                                  TagsMetadata(pending.tags_data)]
                      ELSE modules[k]]
    /\ pending' = TagRunEnd(pending)
    /\ last' = [op |-> "update_tags_metadata", module_id |-> pending.module_id]
    /\ UNCHANGED <<similarity_cache, oracle_calls, seen, module_tags_table, reuse_history>>

NextStore ==
    \/ CreateModule
    \/ GenerateModule
    \/ RequestTags
    \/ TagsReply
    \/ InsertTag
    \/ UpdateTagsMetadata

SpecStore == Init /\ [][NextStore]_vars

(***************************************************************************)
(* The reuse pipeline: _direct_reuse_module, _combine_and_adapt_modules    *)
(* and _record_reuse_history                                               *)
(***************************************************************************)
\* the project the pipeline generates modules for
target_project == "p9"

\* similarity results of matches handed to the pipeline
SimilarityOf(weighted_score, layer_scores) ==
    [weighted_score |-> weighted_score, overall_score |-> 0,
     layer_scores |-> layer_scores, weights_used |-> DefaultWeights]

ReuseSimilarities ==
    {SimilarityOf(97 * One,
        [L1_intent |-> Hundredths(95), L2_constraint |-> One, L3_context |-> One]),
     SimilarityOf(60 * One,
        [L1_intent |-> One, L2_constraint |-> 0, L3_context |-> 0])}

\* the matches a search over rows can hand over, with their decided strategy
ReuseMatches(rows) ==
    {MatchEntry([module |-> rows[k], similarity |-> sim]) :
        k \in {n \in 1..Len(rows) : ~NoCandidateTags(rows[n]) /\ rows[n].sources = {}},
        sim \in ReuseSimilarities}

\* direct_matches / partial_matches of generate_modules_with_memory_search
direct_matches(rows) == {m \in ReuseMatches(rows) : m.strategy = "direct"}

partial_matches(rows) == {m \in ReuseMatches(rows) : m.strategy = "partial_reuse"}

\* module rows created by reuse so far
ReusedRows(rows) == {k \in 1..Len(rows) : rows[k].sources # {}}

\* strategy = match_info.get('strategy', 'new_gen'), replaced when not valid
RecordedStrategy(strategy) ==
    IF strategy \in {"direct", "partial_reuse", "new_gen"} THEN strategy ELSE "new_gen"

\* history_data built by _record_reuse_history
history_data(source_module_id, target_module_id, target_project_id, match_info) ==
    [source_module_id |-> source_module_id,
     target_module_id |-> target_module_id,
     target_project_id |-> target_project_id,
     similarity_score |-> match_info.similarity.weighted_score,
     layer_scores |-> match_info.similarity.layer_scores,
     reuse_strategy |-> RecordedStrategy(match_info.strategy)]

\* the exception of a failed insert leaves the function
_record_reuse_history_propagate(history, entry, inserted) ==
    IF inserted THEN [history |-> Append(history, entry), raised |-> FALSE]
    ELSE [history |-> history, raised |-> TRUE]

\* _record_reuse_history: the insert succeeds, or raises and the except branch
\* swallows the exception
_record_reuse_history(history, entry, inserted) ==
    IF inserted THEN [history |-> Append(history, entry), raised |-> FALSE]
    ELSE [history |-> history, raised |-> FALSE]

\* the match_info _combine_and_adapt_modules records for every reference
combined_match_info ==
    [similarity |-> [weighted_score |-> 70 * One, layer_scores |-> <<>>],
     strategy |-> "partial_reuse"]

\* outcomes of the customization call of _direct_reuse_module
CustomizeReplies == {"raise", "json", "retry_json", "fallback"}

InitReuse ==
    /\ similarity_cache = <<>>
    /\ oracle_calls = 0
    /\ last = NoCall
    /\ seen = {}
    /\ modules \in StoreContents
    /\ module_tags_table = {}
    /\ reuse_history = <<>>
    /\ pending = NoPending

\* what a reuse handler leaves in last: created is the module row inserted,
\* returned the module handed back, raised whether an exception left the handler
ReuseOutcome(op, reply, match_details, created, returned, raised, attempted, written) ==
    [op |-> op, reply |-> reply, match_details |-> match_details, created |-> created,
     returned |-> returned, raised |-> raised, attempted |-> attempted,
     written |-> written]

\* the rows appended to the history by a step
Appended(before, after) ==
    {after[i] : i \in (Len(before) + 1)..Len(after)}

\* _direct_reuse_module for one direct match
DirectReuse ==
    /\ Cardinality(ReusedRows(modules)) < MaxReused
    /\ \E match_info \in direct_matches(modules), reply \in CustomizeReplies,
          inserted \in BOOLEAN :
          IF reply = "raise"
          THEN /\ UNCHANGED <<modules, reuse_history>>
               /\ last' = ReuseOutcome("direct_reuse", reply, {match_info}, {}, {},
                                        TRUE, 0, {})
          ELSE \E r \in {_record_reuse_history(reuse_history,
                              history_data(match_info.module.id, NewId(modules),
                                           target_project, match_info),
                              inserted)} :
               /\ modules' = InsertModule(modules, target_project, NullTags,
                                          {match_info.module.id})
               /\ reuse_history' = r.history
               /\ last' = ReuseOutcome("direct_reuse", reply, {match_info},
                              {NewId(modules)},
                              IF r.raised THEN {} ELSE {NewId(modules)},
                              r.raised, 1, Appended(reuse_history, r.history))
    /\ UNCHANGED <<similarity_cache, oracle_calls, seen, module_tags_table, pending>>

\* the history rows written for one synthesized module: one per reference, each
\* insert succeeding or not; an exception ends the loop
RECURSIVE RecordReferences(_, _, _, _, _)
RecordReferences(st, references, target_module_id, inserted, i) ==
    IF i > Len(references) \/ st.raised THEN st
    ELSE RecordReferences(
            CHOOSE r \in {_record_reuse_history(st.history,
                history_data(references[i].id, target_module_id, target_project,
                             combined_match_info),
                inserted[i])} : TRUE,
            references, target_module_id, inserted, i + 1)

\* lists of partial matches, in the order of their modules' rows
PartialMatchLists(rows) ==
    {ms \in UNION {[1..n -> partial_matches(rows)] : n \in {1, 2}} :
        \A i \in 1..Len(ms), j \in 1..Len(ms) :
            i < j => \E a \in 1..Len(rows), b \in 1..Len(rows) :
                        /\ a < b
                        /\ rows[a].id = ms[i].module.id
                        /\ rows[b].id = ms[j].module.id}

\* _combine_and_adapt_modules synthesizing one module from the references
\* [m['module'] for m in partial_matches]; a reply that is not JSON makes
\* json.loads raise
CombineAndAdapt ==
    /\ Cardinality(ReusedRows(modules)) < MaxReused
    /\ \E match_details \in PartialMatchLists(modules),
          reply \in {"raise", "not_json", "json"} :
        \E inserted \in [1..Len(match_details) -> BOOLEAN] :
          LET reference_modules ==
                  [i \in 1..Len(match_details) |-> match_details[i].module]
              details == {match_details[i] : i \in 1..Len(match_details)}
          IN IF reply # "json"
             THEN /\ UNCHANGED <<modules, reuse_history>>
                  /\ last' = ReuseOutcome("combine", reply, details, {}, {}, TRUE, 0, {})
             ELSE \E r \in {RecordReferences(
                                 [history |-> reuse_history, raised |-> FALSE],
                                 reference_modules, NewId(modules), inserted, 1)} :
                  /\ modules' = InsertModule(modules, target_project, NullTags,
                                    {reference_modules[i].id :
                                        i \in 1..Len(reference_modules)})
                  /\ reuse_history' = r.history
                  /\ last' = ReuseOutcome("combine", reply, details,
                                 {NewId(modules)},
                                 IF r.raised THEN {} ELSE {NewId(modules)},
                                 r.raised, Len(reference_modules),
                                 Appended(reuse_history, r.history))
    /\ UNCHANGED <<similarity_cache, oracle_calls, seen, module_tags_table, pending>>

NextReuse == DirectReuse \/ CombineAndAdapt

SpecReuse == InitReuse /\ [][NextReuse]_vars

(***************************************************************************)
(* The generation pipelines as whole handlers: generate_modules_with_ai    *)
(* and generate_modules_with_memory_search.  The tagging of the created    *)
(* modules, whose exceptions the pipelines catch, is the subject of the    *)
(* steps of generate_tags_for_module above.                                *)
(***************************************************************************)
\* a similarity result below threshold_medium
LowSimilarity ==
    SimilarityOf(40 * One, [L1_intent |-> 0, L2_constraint |-> One, L3_context |-> One])

\* matches of the first two tagged rows, with any of the three strategies
PipelineMatches(rows) ==
    LET tagged == {n \in 1..Len(rows) : ~NoCandidateTags(rows[n]) /\ rows[n].sources = {}}
        firstTwo == {n \in tagged : Cardinality({k \in tagged : k < n}) < 2}
    IN {MatchEntry([module |-> rows[k], similarity |-> sim]) :
            k \in firstTwo, sim \in ReuseSimilarities \cup {LowSimilarity}}

\* search_results['matches'][:top_k]: distinct modules, scores non-increasing
TopMatchLists(rows) ==
    {ms \in UNION {[1..n -> PipelineMatches(rows)] : n \in 0..2} :
        \A i \in 1..Len(ms), j \in 1..Len(ms) :
            i < j => /\ ms[i].module.id # ms[j].module.id
                     /\ ms[i].similarity.weighted_score
                            >= ms[j].similarity.weighted_score}

\* the matches of a list with a given strategy, in list order
MatchesWith(top_matches, strategy) ==
    SelectSeq(top_matches, LAMBDA m : m.strategy = strategy)

\* fresh generation requested whatever the matches are
new_gen_needed_always(top_matches) == TRUE

\* len(top_matches) == 0 or all(weighted_score < 0.5 for m in top_matches)
new_gen_needed(top_matches) ==
    \/ Len(top_matches) = 0
    \/ \A i \in 1..Len(top_matches) :
          2 * top_matches[i].similarity.weighted_score < One * WeightUnit

\* the state a pipeline threads through its steps: the two tables, the created
\* modules, whether an exception has left the handler, whether a reply stayed
\* unparseable after its retries, and the largest number of attempts made for
\* one module
PipelineStart(rows, history) ==
    [modules |-> rows, history |-> history, created |-> <<>>, raised |-> FALSE,
     unparsed |-> FALSE, placeholders |-> {}, attempts |-> 0]

\* _direct_reuse_module inside a pipeline
DirectReuseStep(st, match_info, reply, inserted) ==
    IF st.raised THEN st
    ELSE IF reply = "raise" THEN [st EXCEPT !.raised = TRUE]
    ELSE LET id == NewId(st.modules)
         IN [st EXCEPT
                !.modules = InsertModule(st.modules, target_project, NullTags,
                                         {match_info.module.id}),
                !.history = _record_reuse_history(st.history,
                                history_data(match_info.module.id, id, target_project,
                                             match_info), inserted).history,
                !.created = Append(st.created, id),
                !.unparsed = st.unparsed \/ reply = "fallback",
                !.placeholders = IF reply = "fallback" THEN st.placeholders \cup {id}
                                 ELSE st.placeholders,
                !.attempts = Max2(st.attempts, IF reply = "json" THEN 1 ELSE 2)]

RECURSIVE DirectReuseSteps(_, _, _, _, _)
DirectReuseSteps(st, matches, replies, inserted, i) ==
    IF i > Len(matches) THEN st
    ELSE DirectReuseSteps(DirectReuseStep(st, matches[i], replies[i], inserted[i]),
                          matches, replies, inserted, i + 1)

\* _combine_and_adapt_modules inside a pipeline: one call and one json.loads for
\* the whole list of synthesized modules (here one module)
CombineStep(st, match_details, reply, inserted) ==
    IF st.raised \/ Len(match_details) = 0 THEN st
    ELSE IF reply = "raise" THEN [st EXCEPT !.raised = TRUE, !.attempts = Max2(@, 1)]
    ELSE IF reply = "not_json"
    THEN [st EXCEPT !.raised = TRUE, !.unparsed = TRUE, !.attempts = Max2(@, 1)]
    ELSE LET id == NewId(st.modules)
             reference_modules == [i \in 1..Len(match_details) |-> match_details[i].module]
         IN [st EXCEPT
                !.modules = InsertModule(st.modules, target_project, NullTags,
                                {reference_modules[i].id : i \in 1..Len(reference_modules)}),
                !.history = RecordReferences([history |-> st.history, raised |-> FALSE],
                                reference_modules, id, inserted, 1).history,
                !.created = Append(st.created, id),
                !.attempts = Max2(st.attempts, 1)]

\* what one attempt of the phase 2 retry loop meets: details that parse and are
\* complete, or a reply the except clauses catch (no JSON, a field missing or
\* shorter than 50 characters)
DetailReplies == {"json", "not_json"}

max_retries == 2

\* the number of attempts made by the loop for retry in range(max_retries)
AttemptsMade(attempts) ==
    IF \E n \in 1..max_retries : attempts[n] = "json"
    THEN CHOOSE n \in 1..max_retries :
            attempts[n] = "json" /\ \A k \in 1..(n - 1) : attempts[k] # "json"
    ELSE max_retries

\* phase 2 for one module of generate_modules_with_ai: the details or the
\* placeholder, then the insert
DetailsStep(st, attempts) ==
    LET id == NewId(st.modules)
        failed == \A n \in 1..max_retries : attempts[n] # "json"
    IN [st EXCEPT
           !.modules = InsertModule(st.modules, target_project, NullTags, {}),
           !.created = Append(st.created, id),
           !.unparsed = st.unparsed \/ failed,
           !.placeholders = IF failed THEN st.placeholders \cup {id} ELSE st.placeholders,
           !.attempts = Max2(st.attempts, AttemptsMade(attempts))]

RECURSIVE DetailsSteps(_, _, _)
DetailsSteps(st, details, i) ==
    IF i > Len(details) THEN st
    ELSE DetailsSteps(DetailsStep(st, details[i]), details, i + 1)

\* phase 1 replies: text that is not JSON, or metadata of n modules
MetadataReplies ==
    {[kind |-> "not_json", count |-> 0],
     [kind |-> "json", count |-> 1], [kind |-> "json", count |-> 2]}

\* generate_modules_with_ai: phase 1, then phase 2 for every module
generate_modules_with_ai(st, metadata, details) ==
    IF st.raised THEN st
    ELSE IF metadata.kind # "json" THEN [st EXCEPT !.raised = TRUE]
    ELSE DetailsSteps(st, details, 1)

\* the replies phase 2 can meet for the modules of a phase 1 reply
DetailsFor(metadata) == [1..metadata.count -> [1..max_retries -> DetailReplies]]

\* which of the three paths a memory-search request takes
PathsRun(top_matches) ==
    [direct |-> Len(MatchesWith(top_matches, "direct")) > 0,
     synthesis |-> Len(MatchesWith(top_matches, "partial_reuse")) > 0,
     fresh |-> new_gen_needed(top_matches)]

generate_modules_with_memory_search(st, top_matches, customize, inserted, combine, recorded, metadata, details) ==
    LET direct == MatchesWith(top_matches, "direct")
        partial == MatchesWith(top_matches, "partial_reuse")
    IN CHOOSE out \in
        {IF PathsRun(top_matches).fresh
         THEN generate_modules_with_ai(s2, metadata, details) ELSE s2 :
            s2 \in {CombineStep(s1, partial, combine, recorded) :
                s1 \in {DirectReuseSteps(st, direct, customize, inserted, 1)}}} : TRUE

\* rows created by the pipelines so far
PipelineRows(rows) == {k \in 1..Len(rows) : rows[k].project_id = target_project}

\* what a pipeline leaves in last
PipelineOutcome(op, top_matches, paths, expected, out) ==
    [op |-> op, top_matches |-> top_matches, paths |-> paths, expected |-> expected,
     created |-> out.created, raised |-> out.raised,
     unparsed |-> out.unparsed, placeholders |-> out.placeholders,
     attempts |-> out.attempts]

\* POST generate: generate_modules_with_ai on its own
GenerateModulesWithAI ==
    /\ Cardinality(PipelineRows(modules)) < MaxReused
    /\ \E metadata \in MetadataReplies :
        \E details \in DetailsFor(metadata) :
          \E out \in {generate_modules_with_ai(PipelineStart(modules, reuse_history),
                                               metadata, details)} :
            /\ modules' = out.modules
            /\ reuse_history' = out.history
            /\ last' = PipelineOutcome("generate_modules_with_ai", <<>>,
                          [direct |-> FALSE, synthesis |-> FALSE, fresh |-> TRUE],
                          metadata.count, out)
    /\ UNCHANGED <<similarity_cache, oracle_calls, seen, module_tags_table, pending>>

\* generate_modules_with_memory_search after the search has returned top_matches
GenerateWithMemorySearch ==
    /\ Cardinality(PipelineRows(modules)) < MaxReused
    /\ \E top_matches \in TopMatchLists(modules) :
        \E paths \in {PathsRun(top_matches)} :
        \E customize \in [1..Len(MatchesWith(top_matches, "direct")) ->
                            {"json", "fallback"}],
           inserted \in [1..Len(MatchesWith(top_matches, "direct")) -> BOOLEAN],
           recorded \in [1..Len(MatchesWith(top_matches, "partial_reuse")) -> BOOLEAN],
           combine \in IF paths.synthesis THEN {"not_json", "json"} ELSE {"json"},
           metadata \in IF paths.fresh THEN MetadataReplies
                        ELSE {[kind |-> "json", count |-> 0]} :
        \E details \in DetailsFor(metadata) :
          \E out \in {generate_modules_with_memory_search(
                          PipelineStart(modules, reuse_history), top_matches,
                          customize, inserted, combine, recorded, metadata, details)} :
            /\ modules' = out.modules
            /\ reuse_history' = out.history
            /\ last' = PipelineOutcome("generate_modules_with_memory_search",
                          top_matches, paths,
                          Len(MatchesWith(top_matches, "direct"))
                            + (IF paths.synthesis THEN 1 ELSE 0) + metadata.count,
                          out)
    /\ UNCHANGED <<similarity_cache, oracle_calls, seen, module_tags_table, pending>>

NextPipeline == GenerateModulesWithAI \/ GenerateWithMemorySearch

SpecPipeline == InitReuse /\ [][NextPipeline]_vars

(***************************************************************************)
(* Concurrent calls of calculate_semantic_similarity on one service: the   *)
(* method holds no lock, so a call is three steps (the look-up of both key *)
(* orderings, the oracle call, the write of the cache) and the steps of    *)
(* two callers interleave.  pending holds each caller's position.          *)
(***************************************************************************)
Callers == {"t1", "t2"}

Idle == [pc |-> "idle"]

InitConcurrent ==
    /\ similarity_cache = <<>>
    /\ oracle_calls = 0
    /\ last = NoCall
    /\ seen = {}
    /\ modules = <<>>
    /\ module_tags_table = {}
    /\ reuse_history = <<>>
    /\ pending = [t \in Callers |-> Idle]

\* what a caller's finished call leaves in last
Returned(t, tag1_norm, tag2_norm, layer, ret, oracle) ==
    [op |-> "concurrent_similarity", caller |-> t, tag1 |-> tag1_norm,
     tag2 |-> tag2_norm, layer |-> layer, ret |-> ret, oracle |-> oracle]

\* lines 67-82: normalize, exact match, look-up under both key orderings
LookupStep(t) ==
    /\ pending[t].pc = "idle"
    /\ \E tag1 \in Tags, tag2 \in Tags, layer \in Layers :
        LET tag1_norm == NormalizeOf[tag1]
            tag2_norm == NormalizeOf[tag2]
            cache_key == <<tag1_norm, tag2_norm, layer>>
            reverse_key == <<tag2_norm, tag1_norm, layer>>
        IN \E found \in {CacheLookup(similarity_cache, cache_key, reverse_key)} :
            IF ExactMatch(tag1, tag2)
            THEN /\ last' = Returned(t, tag1_norm, tag2_norm, layer, One, FALSE)
                 /\ UNCHANGED <<pending, seen>>
            ELSE IF found.hit
            THEN /\ last' = Returned(t, tag1_norm, tag2_norm, layer, found.value, FALSE)
                 /\ seen' = seen \cup {SeenEntry(tag1, tag2, layer, found.value)}
                 /\ UNCHANGED pending
            ELSE /\ oracle_calls + Cardinality({c \in Callers : pending[c].pc # "idle"})
                        < MaxCalls
                 /\ pending' = [pending EXCEPT ![t] =
                        [pc |-> "oracle", tag1 |-> tag1_norm, tag2 |-> tag2_norm,
                         layer |-> layer]]
                 /\ UNCHANGED <<last, seen>>
    /\ UNCHANGED <<similarity_cache, oracle_calls, modules, module_tags_table,
                   reuse_history>>

\* lines 84-88: the oracle answers (or fails, and the fallback score is used)
AssessStep(t) ==
    /\ pending[t].pc = "oracle"
    /\ \E reply \in OracleReplies :
        \E a \in {_assess_similarity_with_claude(pending[t].tag1, pending[t].tag2,
                                                 pending[t].layer, reply)} :
            pending' = [pending EXCEPT ![t] =
                [pc |-> "store", tag1 |-> pending[t].tag1, tag2 |-> pending[t].tag2,
                 layer |-> pending[t].layer, similarity_score |-> a.value]]
    /\ oracle_calls' = oracle_calls + 1
    /\ UNCHANGED <<similarity_cache, last, seen, modules, module_tags_table,
                   reuse_history>>

\* lines 90-93: self.similarity_cache[cache_key] = similarity_score; return
StoreStep(t) ==
    /\ pending[t].pc = "store"
    /\ similarity_cache' = CacheStore(similarity_cache,
            <<pending[t].tag1, pending[t].tag2, pending[t].layer>>,
            pending[t].similarity_score)
    /\ last' = Returned(t, pending[t].tag1, pending[t].tag2, pending[t].layer,
                        pending[t].similarity_score, TRUE)
    /\ seen' = seen \cup {[pair |-> {pending[t].tag1, pending[t].tag2},
                           layer |-> pending[t].layer,
                           score |-> pending[t].similarity_score]}
    /\ pending' = [pending EXCEPT ![t] = Idle]
    /\ UNCHANGED <<oracle_calls, modules, module_tags_table, reuse_history>>

NextConcurrent ==
    \E t \in Callers : LookupStep(t) \/ AssessStep(t) \/ StoreStep(t)

SpecConcurrent == InitConcurrent /\ [][NextConcurrent]_vars

(***************************************************************************)
(* Properties of the similarity oracle (Spec)                              *)
(***************************************************************************)
IsSimilarityCall(c) == c.op = "similarity"

SameNormalized(c) == Normalize(c.tag1) = Normalize(c.tag2)

\* C1: a call whose two tags are equal after lower().strip() returns exactly
\* 1.0, for every layer and cache state, makes no oracle call and leaves the
\* cache as it was.
C1_ExactMatchShortCircuit ==
    [][(IsSimilarityCall(last') /\ SameNormalized(last'))
        => /\ last'.ret = One
           /\ ~last'.oracle
           /\ oracle_calls' = oracle_calls
           /\ similarity_cache' = similarity_cache]_vars

C1_Witness ==
    /\ IsSimilarityCall(last)
    /\ SameNormalized(last)
    /\ last.tag1 # last.tag2
    /\ similarity_cache # <<>>
    /\ last.ret = One

\* C2: on one service, every score returned for the unordered pair {a, b} and a
\* layer is the same score, whichever order the tags were passed in and
\* whichever path (exact match, oracle, cache, fallback) produced it.
C2_Symmetric ==
    /\ \A x \in seen, y \in seen :
          (x.pair = y.pair /\ x.layer = y.layer) => x.score = y.score
    /\ (IsSimilarityCall(last) /\ SameNormalized(last)) => last.ret = One

C2_Witness ==
    /\ IsSimilarityCall(last)
    /\ ~SameNormalized(last)
    /\ ~last.oracle
    /\ <<Normalize(last.tag2), Normalize(last.tag1), last.layer>> \in DOMAIN similarity_cache
    /\ <<Normalize(last.tag1), Normalize(last.tag2), last.layer>> \notin DOMAIN similarity_cache

\* the oracle call of c raised or its reply could not be parsed, so that the
\* except branch returned the fallback score
OracleFailed(c) ==
    /\ IsSimilarityCall(c)
    /\ c.oracle
    /\ c.reply.kind \in {"raise", "not_json", "not_object", "non_numeric"}

\* C3: a failed oracle call records nothing in the cache for its pair, so that a
\* later call for the pair reaches the oracle again.
C3_FailureNotCached ==
    OracleFailed(last)
        => /\ <<Normalize(last.tag1), Normalize(last.tag2), last.layer>>
                \notin DOMAIN similarity_cache
           /\ <<Normalize(last.tag2), Normalize(last.tag1), last.layer>>
                \notin DOMAIN similarity_cache

\* C4: when the oracle call raises, or its reply is not JSON or is JSON without
\* a numeric similarity value, the call returns the fallback heuristic's value
\* for the pair and raises nothing.
C4_FailureGivesFallback ==
    (IsSimilarityCall(last) /\ last.oracle /\ last.reply \in FailedReplies)
        => /\ last.ret = _fallback_similarity(Normalize(last.tag1), Normalize(last.tag2))
           /\ ~last.raised

\* C6: every returned score and every cached score lies in [0, 1]; a numeric
\* oracle answer below 0 is returned as 0 and one above 1 as 1.
C6_ScoresInUnitInterval ==
    /\ \A k \in DOMAIN similarity_cache :
          0 <= similarity_cache[k] /\ similarity_cache[k] <= One
    /\ IsSimilarityCall(last) =>
          /\ 0 <= last.ret /\ last.ret <= One
          /\ (last.oracle /\ last.reply.kind = "number" /\ last.reply.value < 0)
                => last.ret = 0
          /\ (last.oracle /\ last.reply.kind = "number" /\ last.reply.value > One)
                => last.ret = One
          /\ (last.oracle /\ last.reply.kind = "number")
                => ~last.raised

C6_Witness ==
    /\ IsSimilarityCall(last)
    /\ last.oracle
    /\ last.reply.kind = "number"
    /\ last.reply.value > One
    /\ last.ret = One
    /\ \E k \in DOMAIN similarity_cache : similarity_cache[k] = One

(***************************************************************************)
(* Properties of the fallback scorer (SpecFallback)                        *)
(***************************************************************************)
\* the words of s: its maximal runs of characters that are not separators
WordsSplitOn(s, separators) ==
    {SubSeq(s, i, j) : <<i, j>> \in
        {p \in (1..Len(s)) \X (1..Len(s)) :
            /\ p[1] <= p[2]
            /\ \A k \in p[1]..p[2] : s[k] \notin separators
            /\ (p[1] = 1 \/ s[p[1] - 1] \in separators)
            /\ (p[2] = Len(s) \/ s[p[2] + 1] \in separators)}}

\* 0.8 on containment, else 0.7 * |Wa \cap Wb| / |Wa \cup Wb| (0.0 when no word
\* is shared), for the words obtained by splitting on the separators
LexicalScore(a, b, separators) ==
    LET Wa == WordsSplitOn(a, separators)
        Wb == WordsSplitOn(b, separators)
    IN IF StrIn(a, b) \/ StrIn(b, a) THEN (8 * One) \div 10
       ELSE IF Wa \cap Wb = {} THEN 0
       ELSE (7 * Cardinality(Wa \cap Wb) * One) \div (10 * Cardinality(Wa \cup Wb))

FallbackExamples(c) ==
    /\ (c.tag1 = T_auth /\ c.tag2 = T_payment) => c.ret = 0
    /\ (c.tag1 = T_auth /\ c.tag2 = T_auth_service) => c.ret = (8 * One) \div 10

\* C5 as stated: for distinct tags the fallback score is 0.8 on containment, else
\* 0.7 x Jaccard of the word sets obtained by splitting on hyphen/underscore.
C5_FallbackHyphenUnderscore ==
    (last.op = "fallback" /\ last.tag1 # last.tag2)
        => /\ last.ret = LexicalScore(last.tag1, last.tag2, {"-", "_"})
           /\ FallbackExamples(last)
           /\ oracle_calls = 0

\* C5 (amended): for distinct tags the fallback score is 0.8 on containment, else
\* 0.7 x Jaccard of the word sets obtained by splitting on hyphen, underscore and
\* whitespace (0.0 when no word is shared); no oracle call is made.
C5_FallbackScore ==
    (last.op = "fallback" /\ last.tag1 # last.tag2)
        => /\ last.ret = LexicalScore(last.tag1, last.tag2, {"-", "_"} \cup Whitespace)
           /\ FallbackExamples(last)
           /\ oracle_calls = 0

C5_Witness ==
    /\ last.op = "fallback"
    /\ last.tag1 = T_user_auth
    /\ last.tag2 = T_auth_service
    /\ last.ret = (7 * One) \div 30

(***************************************************************************)
(* Properties of the module similarity scorer (SpecScorer)                 *)
(***************************************************************************)
IsModuleCall(c) == c.op = "module"

\* the module carries no tag for the layer
HasNoTag(module_tags, layer) ==
    layer \notin DOMAIN module_tags \/ Len(module_tags[layer]) = 0

ScoreAt(layer_scores, layer) ==
    IF layer \in DOMAIN layer_scores THEN layer_scores[layer] ELSE 0

\* C7: a layer for which either module has no tag scores exactly 0.0 whatever
\* the other layers hold, is present in layer_scores, is not sent to the oracle,
\* and the call raises nothing.
C7_MissingTagScoresZero ==
    IsModuleCall(last) =>
        \A layer \in Layers :
            (HasNoTag(last.module1_tags, layer) \/ HasNoTag(last.module2_tags, layer))
                => /\ layer \in DOMAIN last.layer_scores
                   /\ last.layer_scores[layer] = 0
                   /\ layer \notin last.consulted
                   /\ ~last.raised
                   /\ last.error = "none"

C7_Witness ==
    /\ IsModuleCall(last)
    /\ HasNoTag(last.module1_tags, "L3_context")
    /\ ~HasNoTag(last.module2_tags, "L3_context")
    /\ "L3_context" \in DOMAIN last.layer_scores
    /\ last.layer_scores["L3_context"] = 0
    /\ last.layer_scores["L1_intent"] > 0
    /\ last.consulted # {}

\* the weight the caller supplied for a layer (the default one when no weights
\* are supplied, 0 when the supplied weights do not name the layer)
SuppliedWeight(weights, layer) ==
    IF ~weights.given THEN DefaultWeights[layer]
    ELSE IF layer \in DOMAIN weights.w THEN weights.w[layer]
    ELSE 0

\* C8: weighted_score is the sum over the three layers of layer score x supplied
\* weight, with no renormalization, also for weights that do not sum to 1; with
\* the default weights and layer scores 0.95/1.0/1.0 it is 0.97 and the simple
\* decision is direct.
C8_WeightedScoreNotRenormalized ==
    IsModuleCall(last) =>
        /\ last.weighted_score =
              ScoreAt(last.layer_scores, "L1_intent") * SuppliedWeight(last.weights, "L1_intent")
            + ScoreAt(last.layer_scores, "L2_constraint")
                * SuppliedWeight(last.weights, "L2_constraint")
            + ScoreAt(last.layer_scores, "L3_context") * SuppliedWeight(last.weights, "L3_context")
        /\ (/\ ~last.weights.given
            /\ last.layer_scores =
                 [L1_intent |-> (95 * One) \div 100, L2_constraint |-> One, L3_context |-> One])
              => /\ last.weighted_score = 97 * One
                 /\ determine_reuse_strategy_simple(last, threshold_high,
                                                    threshold_medium).strategy = "direct"

C8_Witness ==
    /\ IsModuleCall(last)
    /\ last.weights = W_uneven
    /\ last.layer_scores =
         [L1_intent |-> (95 * One) \div 100, L2_constraint |-> One, L3_context |-> One]
    /\ last.weighted_score > One * WeightUnit

\* the supplied weights hold a negative weight or a key outside the three layers
InvalidWeights(weights) ==
    /\ weights.given
    /\ \/ \E k \in DOMAIN weights.w : weights.w[k] < 0
       \/ \E k \in DOMAIN weights.w : k \notin Layers

\* C9: a call with a negative weight, or with a weight keyed by a layer outside
\* the three, is rejected with a validation error instead of producing a score.
C9_WeightsValidated ==
    (IsModuleCall(last) /\ InvalidWeights(last.weights)) => last.error = "ValidationError"

\* C10: a call of calculate_module_similarity that repeats the previous call's
\* source tags, target tags and weights returns the same weighted_score,
\* overall_score and layer_scores, whatever the cache held before the first call
\* and whatever the oracle would answer the second time.
C10_RepeatedCallIdentical ==
    [][(IsModuleCall(last') /\ last'.repeat)
        => /\ last'.weighted_score = last.weighted_score
           /\ last'.overall_score = last.overall_score
           /\ last'.layer_scores = last.layer_scores]_vars

C10_Witness ==
    /\ IsModuleCall(last)
    /\ last.repeat
    /\ last.consulted = {}
    /\ \E layer \in Layers :
          /\ ~HasNoTag(last.module1_tags, layer)
          /\ ~HasNoTag(last.module2_tags, layer)
          /\ Normalize(last.module1_tags[layer]) # Normalize(last.module2_tags[layer])
          /\ last.layer_scores[layer] # _fallback_similarity(
                Normalize(last.module1_tags[layer]), Normalize(last.module2_tags[layer]))

(***************************************************************************)
(* Properties of the two decisions (SpecDecide)                            *)
(***************************************************************************)
IsSimpleDecision == last.op = "simple"

StrategyRank(strategy) ==
    CASE strategy = "new_gen" -> 0
      [] strategy = "partial_reuse" -> 1
      [] strategy = "direct" -> 2

\* C11: the simple decision's strategy depends on weighted_score and the two
\* thresholds only: direct iff weighted_score >= threshold_high (default 0.75,
\* inclusive), partial_reuse iff threshold_medium (default 0.50, inclusive) <=
\* weighted_score < threshold_high, new_gen otherwise; similarity results with
\* the same weighted_score get the same strategy whatever their overall_score
\* and layer scores.
C11_StrategyFromWeightedScore ==
    IsSimpleDecision
        => LET ws == last.similarity_result.weighted_score
               hi == last.threshold_high * One
               med == last.threshold_medium * One
           IN /\ (last.strategy = "direct") <=> (ws >= hi)
              /\ (last.strategy = "partial_reuse") <=> (med <= ws /\ ws < hi)
              /\ (last.strategy = "new_gen") <=> (ws < hi /\ ws < med)
              /\ \A sr \in SimilarityResults :
                    sr.weighted_score = ws
                        => determine_reuse_strategy_simple(sr, last.threshold_high,
                               last.threshold_medium).strategy = last.strategy
              /\ (last.threshold_high = 75 /\ last.threshold_medium = 50)
                    => /\ ws = 40 * One => last.strategy = "new_gen"
                       /\ ws = 60 * One => last.strategy = "partial_reuse"
                       /\ ws = 90 * One => last.strategy = "direct"
                       /\ ws = 75 * One => last.strategy = "direct"
                       /\ ws = 50 * One => last.strategy = "partial_reuse"

C11_Witness ==
    /\ IsSimpleDecision
    /\ last.threshold_high = threshold_high
    /\ last.threshold_medium = threshold_medium
    /\ last.similarity_result.weighted_score = 75 * One
    /\ last.similarity_result.overall_score = 0
    /\ \A layer \in Layers : last.similarity_result.layer_scores[layer] = 0
    /\ last.strategy = "direct"

\* C12: for fixed thresholds the simple decision is monotone in weighted_score
\* under new_gen < partial_reuse < direct: a score at or below the decided one
\* gets a strategy at or below the decided strategy, a score at or above it a
\* strategy at or above.
C12_StrategyMonotone ==
    IsSimpleDecision
        => \A s \in WeightedScores :
              LET other == SimpleStrategy(s, last.threshold_high, last.threshold_medium)
              IN /\ s <= last.similarity_result.weighted_score
                    => StrategyRank(other) <= StrategyRank(last.strategy)
                 /\ s >= last.similarity_result.weighted_score
                    => StrategyRank(other) >= StrategyRank(last.strategy)

C12_Witness ==
    /\ IsSimpleDecision
    /\ last.threshold_high = 85
    /\ last.threshold_medium = 60
    /\ last.similarity_result.weighted_score = 60 * One
    /\ last.strategy = "partial_reuse"

IsSmartDecision == last.op = "smart"

BreakdownScore(key) ==
    IF key \in DOMAIN last.score_breakdown THEN last.score_breakdown[key] ELSE 0

Strong(key) == BreakdownScore(key) * 10 >= One * 7

Acceptable(key) == BreakdownScore(key) * 10 >= One * 4

Rule1 ==
    Strong("L1_intent_score") /\ Strong("L2_constraint_score")
        /\ Acceptable("L3_context_score")

\* C13: the layer-quality decision is total and first-match-wins on the layer
\* scores (strong: >= 0.7, acceptable: >= 0.4): direct with confidence
\* min(0.95, score) iff L1 strong, L2 strong, L3 acceptable; else partial_reuse
\* 0.70 if L1 strong and L2 not strong; else partial_reuse 0.65 if L1 strong and
\* L3 not acceptable; else pattern_combination 0.60 if L1 acceptable but not
\* strong; else new_gen 0.30.  An input of rule 1 is always given direct.
C13_SmartDecisionTree ==
    IsSmartDecision
        => /\ Rule1 <=> last.strategy = "direct"
           /\ Rule1 => last.confidence = Min2((95 * One) \div 100, last.overall_score)
           /\ (~Rule1 /\ Strong("L1_intent_score") /\ ~Strong("L2_constraint_score"))
                 => (last.strategy = "partial_reuse"
                        /\ last.confidence = (70 * One) \div 100)
           /\ (~Rule1 /\ Strong("L1_intent_score") /\ Strong("L2_constraint_score")
                  /\ ~Acceptable("L3_context_score"))
                 => (last.strategy = "partial_reuse"
                        /\ last.confidence = (65 * One) \div 100)
           /\ (~Strong("L1_intent_score") /\ Acceptable("L1_intent_score"))
                 => (last.strategy = "pattern_combination"
                        /\ last.confidence = (60 * One) \div 100)
           /\ ~Acceptable("L1_intent_score")
                 => (last.strategy = "new_gen"
                        /\ last.confidence = (30 * One) \div 100)
           /\ last.strategy \in {"direct", "partial_reuse", "pattern_combination",
                                 "new_gen"}

C13_Witness ==
    /\ IsSmartDecision
    /\ last.overall_score = One
    /\ BreakdownScore("L1_intent_score") = (70 * One) \div 100
    /\ BreakdownScore("L2_constraint_score") = (70 * One) \div 100
    /\ BreakdownScore("L3_context_score") = (40 * One) \div 100
    /\ BreakdownScore("L4_quality_score") = 0
    /\ last.strategy = "direct"
    /\ last.confidence = (95 * One) \div 100

(***************************************************************************)
(* Properties of the search (SpecSearch)                                   *)
(***************************************************************************)
IsSearch == last.op = "search"

MatchIndexes == 1..Len(last.matches)

MatchScore(i) == last.matches[i].similarity.weighted_score

\* position of the module of match i in the table's retrieval order
PoolPosition(i) ==
    CHOOSE k \in 1..Len(last.rows) : last.rows[k].id = last.matches[i].module.id

\* C14: no match returned by search_similar_modules is a module whose tag set
\* is absent or empty, and when a project id to exclude is supplied no returned
\* match belongs to that project.
C14_MatchesTaggedAndForeign ==
    IsSearch
        => \A i \in MatchIndexes :
              LET m == last.matches[i].module
              IN /\ \E k \in 1..Len(last.rows) : last.rows[k] = m
                 /\ ~m.tags_metadata.null
                 /\ DOMAIN m.tags_metadata.tags # {}
                 /\ \E layer \in DOMAIN m.tags_metadata.tags :
                       m.tags_metadata.tags[layer] # <<>>
                 /\ last.project_id # "" => m.project_id # last.project_id

C14_Witness ==
    /\ IsSearch
    /\ last.rows = Pool1
    /\ last.project_id = "p1"
    /\ Len(last.matches) = 2
    /\ last.total_searched = 5
    /\ \A i \in MatchIndexes : last.matches[i].module.project_id = "p2"

\* the floor passed by the search, as a weighted score
Floor == 30 * One

\* the candidates compared whose score is at or above the floor
Eligible == {k \in 1..Len(last.scored) : last.scored[k].similarity.weighted_score >= Floor}

\* C15: the list returned by search is the first `limit` of the candidates whose
\* weighted_score is at or above the floor 0.3, in non-increasing order of
\* weighted_score: at most `limit` long, no listed score below the floor, no
\* omitted eligible candidate with a higher score than a listed one.
C15_TopLimitAboveFloor ==
    IsSearch
        => /\ Len(last.matches) <= last.limit
           /\ Len(last.matches) = Min2(last.limit, Cardinality(Eligible))
           /\ \A i \in MatchIndexes :
                 /\ MatchScore(i) >= Floor
                 /\ \E k \in Eligible :
                       /\ last.scored[k].module = last.matches[i].module
                       /\ last.scored[k].similarity = last.matches[i].similarity
           /\ \A i \in MatchIndexes, j \in MatchIndexes :
                 /\ i < j => MatchScore(i) >= MatchScore(j)
                 /\ i # j => last.matches[i].module.id # last.matches[j].module.id
           /\ \A k \in Eligible :
                 (\A i \in MatchIndexes : last.matches[i].module # last.scored[k].module)
                    => \A i \in MatchIndexes :
                          last.scored[k].similarity.weighted_score <= MatchScore(i)

C15_Witness ==
    /\ IsSearch
    /\ last.limit = 2
    /\ Len(last.matches) = 2
    /\ Cardinality(Eligible) = 3
    /\ Len(last.scored) > 3
    /\ MatchScore(1) > MatchScore(2)

\* C16: the ranking is stable: matches of equal weighted_score keep the relative
\* order of the candidate pool, and a repeated call with the same inputs returns
\* the modules in the same order.
C16_StableRanking ==
    /\ [](IsSearch
            => \A i \in MatchIndexes, j \in MatchIndexes :
                  (i < j /\ MatchScore(i) = MatchScore(j))
                      => PoolPosition(i) < PoolPosition(j))
    /\ [][(IsSearch /\ last'.op = "search" /\ last'.repeat)
            => [i \in 1..Len(last'.matches) |-> last'.matches[i].module.id]
                 = [i \in MatchIndexes |-> last.matches[i].module.id]]_vars

C16_Witness ==
    /\ IsSearch
    /\ last.repeat
    /\ last.rows = Pool2
    /\ Len(last.matches) = 3
    /\ MatchScore(1) > MatchScore(2)
    /\ MatchScore(2) = MatchScore(3)
    /\ PoolPosition(2) < PoolPosition(1)
    /\ PoolPosition(1) < PoolPosition(3)

\* C17: search scores with the weights of the scoring config its caller
\* selects: every returned entry's weighted_score is the sum of its layer
\* scores times the selected weights, and its strategy and rationale are the
\* simple decision applied to the entry's own similarity result.
C17_SearchUsesSelectedWeights ==
    IsSearch
        => \A i \in MatchIndexes :
              LET sim == last.matches[i].similarity
                  d == determine_reuse_strategy_simple(sim, threshold_high, threshold_medium)
              IN /\ sim.weighted_score
                      = WeightedSum(sim.layer_scores, ScoringConfigs[last.config_name])
                 /\ last.matches[i].strategy = d.strategy
                 /\ last.matches[i].rationale = d.rationale

(***************************************************************************)
(* Properties of the tag records (SpecStore)                               *)
(***************************************************************************)
\* the tag values the canonical records hold for a module and a layer
CanonicalTags(module_id, layer) ==
    {row.tag_value : row \in {r \in module_tags_table :
                                r.module_id = module_id /\ r.layer = layer}}

\* the tag values tags_metadata names for a layer
DenormalizedTags(row, layer) ==
    IF row.tags_metadata.null \/ layer \notin DOMAIN row.tags_metadata.tags
       \/ row.tags_metadata.tags[layer] = <<>>
    THEN {}
    ELSE {row.tags_metadata.tags[layer]}

\* C18: after any sequence of module creations, generation runs and tag
\* generations (the same module tagged more than once included), the canonical
\* tag records hold at most one tag per (module, layer).
C18_OneTagPerLayer ==
    \A k \in 1..Len(modules), layer \in Layers :
        Cardinality(CanonicalTags(modules[k].id, layer)) <= 1

\* C19: in every observable state, a module's tags_metadata names, layer by
\* layer, exactly the tags held in its canonical module_tags records.
C19_TagsMetadataEqualsCanonical ==
    \A k \in 1..Len(modules), layer \in Layers :
        DenormalizedTags(modules[k], layer) = CanonicalTags(modules[k].id, layer)

(***************************************************************************)
(* Properties of the reuse history (SpecReuse)                             *)
(***************************************************************************)
\* reuse decisions made so far: one per module created by direct reuse or by
\* synthesis
ReuseDecisions == Cardinality(ReusedRows(modules))

\* C20: the reuse-history log is append-only and counts decisions exactly:
\* after N reuse decisions (direct reuse and synthesis from several references)
\* it holds exactly N entries, and no step updates or deletes an entry.
C20_HistoryCountsDecisions ==
    /\ [](Len(reuse_history) = ReuseDecisions)
    /\ [][/\ Len(reuse_history') >= Len(reuse_history)
          /\ SubSeq(reuse_history', 1, Len(reuse_history)) = reuse_history]_vars

IsReuse == last.op \in {"direct_reuse", "combine"}

\* C21: if a reuse-history insert fails, the module-creation operation still
\* completes: the inserted module row stays in the store and no existing row
\* changes, the module is returned to the caller and no error is propagated, in
\* the direct-reuse and in the synthesis path.
C21_HistoryFailureTolerated ==
    [][(last'.op \in {"direct_reuse", "combine"} /\ last'.created # {}
            /\ Cardinality(last'.written) < last'.attempted)
        => /\ ~last'.raised
           /\ last'.returned = last'.created
           /\ Len(modules') = Len(modules) + 1
           /\ modules'[Len(modules')].id \in last'.created
           /\ SubSeq(modules', 1, Len(modules)) = modules
           /\ SubSeq(reuse_history', 1, Len(reuse_history)) = reuse_history]_vars

C21_Witness ==
    /\ last.op = "combine"
    /\ last.attempted = 2
    /\ last.written = {}
    /\ last.created # {}
    /\ modules[Len(modules)].id \in last.returned
    /\ \E k \in 1..Len(modules) : modules[k].sources # {} /\ modules[k].id \notin last.created

(***************************************************************************)
(* Properties of the generation pipelines (SpecPipeline)                   *)
(***************************************************************************)
IsPipeline ==
    last.op \in {"generate_modules_with_ai", "generate_modules_with_memory_search"}

\* C22: in every batch-generation path, when the reply for one module still
\* cannot be parsed after its retry, the batch does not fail, every module of
\* the batch is created and returned (the unparseable one as a placeholder),
\* and no module took more than two attempts.
C22_BadReplyKeepsBatch ==
    (IsPipeline /\ last.unparsed) =>
        /\ ~last.raised
        /\ Len(last.created) = last.expected
        /\ last.attempts <= max_retries

(***************************************************************************)
(* Properties of concurrent similarity calls (SpecConcurrent)              *)
(***************************************************************************)
\* C23: under any interleaving of concurrent similarity calls sharing one cache,
\* the cache never holds two different scores for the same unordered tag pair
\* and layer, one under each key ordering.
C23_CacheNotCorrupted ==
    \A k \in DOMAIN similarity_cache :
        LET reverse_key == <<k[2], k[1], k[3]>>
        IN reverse_key \in DOMAIN similarity_cache
            => similarity_cache[reverse_key] = similarity_cache[k]

(***************************************************************************)
(* Properties of the module scorer's oracle requests and mean (SpecScorer) *)
(***************************************************************************)
\* C24: whenever the module scorer consults the oracle for a layer, the request
\* carries the reasoning text of each compared tag that has reasoning in its
\* tag record.
C24_RequestCarriesReasoning ==
    last.op = "module" =>
        \A req \in last.requests :
            /\ ReasoningOf(last.module1_tags, req.layer).some
                => req.tag1_context = ReasoningOf(last.module1_tags, req.layer)
            /\ ReasoningOf(last.module2_tags, req.layer).some
                => req.tag2_context = ReasoningOf(last.module2_tags, req.layer)

\* C25: overall_score is the unweighted mean of the layer scores over the layers
\* for which both modules carry a tag; a layer with a missing tag does not
\* enter the denominator.
LayersPresent(module1_tags, module2_tags) ==
    {l \in Layers : ~Falsy(TagOf(module1_tags, l)) /\ ~Falsy(TagOf(module2_tags, l))}

C25_OverallIsMeanOfPresent ==
    last.op = "module" =>
        LET present == LayersPresent(last.module1_tags, last.module2_tags)
        IN IF present = {} THEN last.overall_score = 0
           ELSE last.overall_score =
                    SumOver(present, [l \in present |-> last.layer_scores[l]])
                        \div Cardinality(present)

(***************************************************************************)
(* Further properties of the similarity cache (Spec)                       *)
(***************************************************************************)
\* the cache entry a call for (tag1, tag2, layer) would find, under either key
\* ordering
StoredFor(cache, tag1, tag2, layer) ==
    CacheLookup(cache, <<NormalizeOf[tag1], NormalizeOf[tag2], layer>>,
                       <<NormalizeOf[tag2], NormalizeOf[tag1], layer>>)

\* C26: once a score is stored for (a, b, layer), every later sequential call
\* for (a, b, layer) or (b, a, layer) returns the stored score without
\* consulting the oracle, and no later operation overwrites, invalidates or
\* evicts the stored entry.
C26_StoredScoreReused ==
    [][/\ \A k \in DOMAIN similarity_cache :
            k \in DOMAIN similarity_cache' /\ similarity_cache'[k] = similarity_cache[k]
       /\ (/\ last'.op = "similarity"
           /\ ~ExactMatch(last'.tag1, last'.tag2)
           /\ StoredFor(similarity_cache, last'.tag1, last'.tag2, last'.layer).hit)
          => /\ ~last'.oracle
             /\ oracle_calls' = oracle_calls
             /\ last'.ret =
                  StoredFor(similarity_cache, last'.tag1, last'.tag2, last'.layer).value]_vars

\* a call answered from an entry stored under the reverse key ordering only
C26_Witness ==
    /\ last.op = "similarity"
    /\ ~last.oracle
    /\ ~ExactMatch(last.tag1, last.tag2)
    /\ <<NormalizeOf[last.tag1], NormalizeOf[last.tag2], last.layer>>
          \notin DOMAIN similarity_cache
    /\ <<NormalizeOf[last.tag2], NormalizeOf[last.tag1], last.layer>>
          \in DOMAIN similarity_cache
    /\ last.ret = similarity_cache[<<NormalizeOf[last.tag2], NormalizeOf[last.tag1],
                                     last.layer>>]

(***************************************************************************)
(* Further properties of the simple decision (SpecDecide)                  *)
(***************************************************************************)
\* the name under which the "learn from" hint lists a layer
PatternName ==
    [L1_intent |-> "Intent patterns", L2_constraint |-> "Tech stack",
     L3_context |-> "Domain knowledge"]

\* the decision reached the else branch: weighted_score is below both thresholds
\* (below threshold_medium when the thresholds are ordered)
InNewGenBranch ==
    /\ IsSimpleDecision
    /\ last.similarity_result.weighted_score < last.threshold_medium * One
    /\ last.similarity_result.weighted_score < last.threshold_high * One

\* C27: in the new_gen branch of the simple decision every layer whose score is
\* >= 0.6 is named in the rationale's "learn from" hint, and the strategy is
\* new_gen whatever the layer scores are.
C27_StrongLayersNamed ==
    InNewGenBranch =>
        /\ last.strategy = "new_gen"
        /\ \A layer \in Layers :
              10 * last.similarity_result.layer_scores[layer] >= 6 * One
                  => /\ PatternName[layer] \in last.learn_from
                     /\ last.rationale = "low_match_learn_from"

\* a new_gen decision with the tech layer exactly at 0.6 and both others strong
C27_Witness ==
    /\ InNewGenBranch
    /\ last.threshold_high = threshold_high
    /\ last.threshold_medium = threshold_medium
    /\ last.similarity_result.layer_scores["L2_constraint"] = Hundredths(60)
    /\ last.similarity_result.layer_scores["L1_intent"] = One
    /\ last.similarity_result.layer_scores["L3_context"] = One
    /\ last.strategy = "new_gen"
    /\ last.learn_from = {"Intent patterns", "Tech stack", "Domain knowledge"}

(***************************************************************************)
(* Further properties of the reuse history (SpecReuse)                     *)
(***************************************************************************)
\* C28: every reuse-history entry written by the reuse pipeline records, for
\* its source module, the weighted_score, layer scores and strategy the search
\* computed for that module, in the direct-reuse path and in the synthesis path.
C28_HistoryRecordsComputedScores ==
    IsReuse =>
        \A e \in last.written :
            \E m \in last.match_details :
                /\ m.module.id = e.source_module_id
                /\ e.similarity_score = m.similarity.weighted_score
                /\ e.layer_scores = m.similarity.layer_scores
                /\ e.reuse_strategy = m.strategy

(***************************************************************************)
(* Further properties of the generation pipelines (SpecPipeline)           *)
(***************************************************************************)
IsMemorySearch == last.op = "generate_modules_with_memory_search"

\* the top matches recommending reuse
ReuseRecommended(top_matches) ==
    {i \in 1..Len(top_matches) : top_matches[i].strategy \in {"direct", "partial_reuse"}}

DecisionWithoutIntent(l2_score, l3_score) ==
    LET layer_scores ==
            [L1_intent |-> 0, L2_constraint |-> l2_score, L3_context |-> l3_score]
    IN determine_reuse_strategy_simple(
            [weighted_score |-> WeightedSum(layer_scores, DefaultWeights),
             overall_score |-> 0, layer_scores |-> layer_scores],
            threshold_high, threshold_medium)

\* C30: with the default weights and thresholds a candidate whose L1 layer score
\* is 0.0 is always assigned new_gen by the simple decision, whatever its L2 and
\* L3 scores; no match returned by search with an L1 score of 0.0 recommends
\* direct or partial reuse.
C30_NoReuseWithoutIntent ==
    IsSearch =>
        /\ \A i \in MatchIndexes :
              LayerScoreGet(last.matches[i].similarity.layer_scores, "L1_intent") = 0
                  => last.matches[i].strategy = "new_gen"
        /\ \A i \in 1..Len(last.scored) :
              LayerScoreGet(last.scored[i].similarity.layer_scores, "L1_intent") = 0
                  => MatchEntry(last.scored[i]).strategy = "new_gen"
        /\ \A l2_score \in LayerScoreValues, l3_score \in LayerScoreValues :
              DecisionWithoutIntent(l2_score, l3_score).strategy = "new_gen"

\* a returned match whose intent score is 0.0 while tech and domain match
\* exactly: weighted score 0.40, strategy new_gen
C30_Witness ==
    /\ IsSearch
    /\ \E i \in MatchIndexes :
          /\ last.matches[i].similarity.layer_scores
                = [L1_intent |-> 0, L2_constraint |-> One, L3_context |-> One]
          /\ last.matches[i].similarity.weighted_score = 40 * One
          /\ last.matches[i].strategy = "new_gen"

====
